---- MODULE Spec2Model ----
(***************************************************************************)
(* jocky: the fragment index (fragments.rs), the two writer agents         *)
(* (actors/writers/aio.rs, actors/writers/blocking.rs) and the prototype   *)
(* agent (actors/aio_writer.rs), the channel in front of them, the         *)
(* selector and directory facades (actors/writers/mod.rs, directory.rs),   *)
(* the published-segment writers (export_segment, directories/writer.rs,   *)
(* actors/exporter.rs), the published-segment reader                       *)
(* (directories/reader.rs) and the footer codec (metadata.rs).             *)
(*                                                                         *)
(* Spec         the agent at work on its index                             *)
(* SpecIndex    the same, the messages that change its state only          *)
(* SpecRead     the same behaviours, for the properties of read_range      *)
(* SpecExport   the same with the export paths                             *)
(* SpecChannel  producers, the channel and the agent                       *)
(* SpecDrop     producers that drop their response handles                 *)
(* SpecClose    producers that drop their handles to the mailbox           *)
(* SpecFlood    one producer filling the channel                           *)
(* SpecFooter   the footer written, cut short and read                     *)
(* SpecFacade   clones of the directory facade and its side-table          *)
(* SpecRace     clones of the facade that call atomic_write only           *)
(* SpecHandles  file handles opened on the facade                          *)
(* SpecPair     an aio agent and a blocking agent sent the same messages   *)
(* SpecSegment  the SegmentWriter of actors/exporter.rs                    *)
(* SpecReader   the DirectoryReader of a published segment                 *)
(*                                                                         *)
(* Offsets are 0-based as in the source; a byte sequence b holds the byte  *)
(* at offset i in b[i + 1].                                                *)
(***************************************************************************)
EXTENDS Integers, Sequences, FiniteSets, TLC

\* ------------------------------------------------------------------ bounds

\* Write messages the agent accepts in one behaviour.
MaxWrites == 3

\* Calls the producers make in one behaviour of the channel.
MaxSends == 3

\* Calls a flooding producer makes beyond the channel's capacity.
MaxOverflow == 2

\* The file handles opened in a behaviour.
MaxHandles == 2

\* ------------------------------------------------------- program constants

\* flume::bounded(100): the capacity of the agent's mailbox.
MAILBOX_CAPACITY == 100

\* BufWriter::with_capacity(BUFFER_CAPACITY, ..) of the blocking backend.
BUFFER_CAPACITY == 524288

\* mem::size_of::<u64>() * 2
METADATA_HEADER_SIZE == 16

\* ------------------------------------------------------------------ inputs

\* Logical paths in ascending (BTreeMap) order.
PathOrder == <<"/a", "/b">>

Paths == {PathOrder[i] : i \in 1..Len(PathOrder)}

\* The buffers a write message may carry.
Buffers == {<<>>, <<1>>, <<2, 3>>}

\* The hot-cache blobs an export message may carry.
HotCaches == {<<>>, <<7>>}

\* The size hints a writer may be created with.
SizeHints == {0, 4}

\* The offsets a read message may name.
Offsets == {0, 1}

\* The threads that hold a handle to the agent's mailbox.
Producers == {1, 2}

\* The clones of the facade, one per calling thread.
Clones == {1, 2}

\* The buffers written through the facade.
FacadeBuffers == {<<1>>, <<2, 3>>}

\* ----------------------------------------------------------------- helpers

Min(a, b) == IF a < b THEN a ELSE b

Max(a, b) == IF a > b THEN a ELSE b

\* bytes[lo, hi) of a 0-based byte sequence.
Slice(bytes, lo, hi) == SubSeq(bytes, lo + 1, hi)

\* Vec::truncate
Truncate(bytes, n) == IF Len(bytes) > n THEN SubSeq(bytes, 1, n) ELSE bytes

RECURSIVE Concat(_)
Concat(seqs) ==
    IF seqs = <<>> THEN <<>> ELSE Head(seqs) \o Concat(Tail(seqs))

RECURSIVE SumSeq(_)
SumSeq(ns) == IF ns = <<>> THEN 0 ELSE Head(ns) + SumSeq(Tail(ns))

\* Range<usize>::len(): empty when end <= start.
RangeLen(lo, hi) == IF hi > lo THEN hi - lo ELSE 0

\* Insertion of x into a list sorted by start, after every element whose start
\* is not larger: the step of a stable sort.
RECURSIVE InsertByStart(_, _)
InsertByStart(x, sorted) ==
    IF sorted = <<>> THEN <<x>>
    ELSE IF x.start < Head(sorted).start THEN <<x>> \o sorted
    ELSE <<Head(sorted)>> \o InsertByStart(x, Tail(sorted))

\* sorted_by_key(|range| range.start) / sort_by_key(|v| v.0): a stable sort.
RECURSIVE SortByStart(_)
SortByStart(list) ==
    IF list = <<>> THEN <<>>
    ELSE InsertByStart(list[Len(list)], SortByStart(SubSeq(list, 1, Len(list) - 1)))

\* The permutations of 1..n, as sequences.
Perms(n) ==
    {p \in [1..n -> 1..n] : \A i, j \in 1..n : i # j => p[i] # p[j]}

\* -------------------------------------------------- fragments.rs: the index

\* DiskFragments::default(): no path has fragments.
EmptyFragments == [p \in {} |-> <<>>]

\* DiskFragments::exists
exists(frags, path) == path \in DOMAIN frags

\* DiskFragments::clear_fragments: BTreeMap::remove.
clear_fragments(frags, path) ==
    [p \in (DOMAIN frags) \ {path} |-> frags[p]]

\* A mark that never clears: overwrite is ignored.
mark_fragment_location_noclear(frags, path, location, overwrite) ==
    [p \in (DOMAIN frags) \cup {path} |->
        IF p = path
        THEN (IF path \in DOMAIN frags THEN frags[path] ELSE <<>>) \o <<location>>
        ELSE frags[p]]

\* A mark that clears the path's list whether or not overwrite is set.
mark_fragment_location_clears(frags, path, location, overwrite) ==
    [p \in (DOMAIN frags) \cup {path} |->
        IF p = path THEN <<location>> ELSE frags[p]]

\* DiskFragments::mark_fragment_location
mark_fragment_location(frags, path, location, overwrite) ==
    LET cleared == IF overwrite THEN clear_fragments(frags, path) ELSE frags
    IN  [p \in (DOMAIN cleared) \cup {path} |->
            IF p = path
            THEN (IF path \in DOMAIN cleared THEN cleared[path] ELSE <<>>)
                     \o <<location>>
            ELSE cleared[p]]

\* DiskFragments::file_size, for a path that exists (Some(n)).
FragmentsLen(list) == SumSeq([i \in 1..Len(list) |-> list[i].end - list[i].start])

\* DiskFragments::file_size: "None" for an absent path.
file_size(frags, path) ==
    IF path \in DOMAIN frags THEN FragmentsLen(frags[path]) ELSE "None"

\* DiskFragments::total_size
RECURSIVE TotalOver(_, _)
TotalOver(frags, order) ==
    IF order = <<>> THEN 0
    ELSE (IF Head(order) \in DOMAIN frags THEN FragmentsLen(frags[Head(order)]) ELSE 0)
             + TotalOver(frags, Tail(order))

\* A total that adds every fragment's end instead of its length.
total_size_of_ends(frags) ==
    SumSeq([i \in 1..Len(PathOrder) |->
               IF PathOrder[i] \in DOMAIN frags
               THEN SumSeq([k \in 1..Len(frags[PathOrder[i]]) |->
                               frags[PathOrder[i]][k].end])
               ELSE 0])

total_size(frags) == TotalOver(frags, PathOrder)

\* The end of the first range of a list, 0 for none.
FirstEnd(list) == IF list = <<>> THEN 0 ELSE Head(list).end

\* max(range.end) over a list, 0 for none.
RECURSIVE MaxEnd(_)
MaxEnd(list) ==
    IF list = <<>> THEN 0 ELSE Max(Head(list).end, MaxEnd(Tail(list)))

\* A loop that never skips a fragment: every fragment is read from its start.
SelectLoopNoSkip(sorted, skip, planned, want) ==
    [i \in 1..Len(sorted) |->
        [start |-> sorted[i].start, len |-> sorted[i].end - sorted[i].start]]

\* The loop of get_selected_fragments over the sorted fragments: the requests
\* (offset, length) it pushes.
RECURSIVE SelectLoop(_, _, _, _)
SelectLoop(sorted, skip, planned, want) ==
    IF sorted = <<>> \/ planned >= want THEN <<>>
    ELSE LET range == Head(sorted)
             fragment_len == range.end - range.start
         IN  IF fragment_len < skip
             THEN SelectLoop(Tail(sorted), skip - fragment_len, planned, want)
             ELSE LET seek_to == range.start + skip
                      len == range.end - seek_to
                  IN  <<[start |-> seek_to, len |-> len]>>
                          \o SelectLoop(Tail(sorted), 0, planned + len, want)

\* A selection that rejects a range that ends past the end of the file.
get_selected_fragments_checked(frags, path, lo, hi) ==
    IF path \notin DOMAIN frags \/ hi > file_size(frags, path)
    THEN [ok |-> FALSE, err |-> "NotFound"]
    ELSE [ok |-> TRUE,
          fragments |-> SelectLoop(SortByStart(frags[path]), lo, 0,
                                   RangeLen(lo, hi)),
          minimum_flushed_pos |-> MaxEnd(frags[path])]

\* DiskFragments::get_selected_fragments
get_selected_fragments(frags, path, lo, hi) ==
    IF path \notin DOMAIN frags
    THEN [ok |-> FALSE, err |-> "NotFound"]
    ELSE [ok |-> TRUE,
          fragments |-> SelectLoop(SortByStart(frags[path]), lo, 0,
                                   RangeLen(lo, hi)),
          minimum_flushed_pos |-> MaxEnd(frags[path])]

\* ------------------------------------------------ metadata.rs: the footer

\* A u64 too large for any offset of the model (2^24 or more).
Huge == 256 * 256 * 256

\* u64::to_be_bytes, for a value below 2^24.
to_be_bytes(n) ==
    <<0, 0, 0, 0, 0, (n \div 65536) % 256, (n \div 256) % 256, n % 256>>

\* u64::from_be_bytes of 8 bytes; Huge stands for every value of 2^24 or more.
from_be_bytes(b) ==
    IF b[1] = 0 /\ b[2] = 0 /\ b[3] = 0 /\ b[4] = 0 /\ b[5] = 0
    THEN b[6] * 65536 + b[7] * 256 + b[8]
    ELSE Huge

\* write_metadata_offsets: the 16 bytes it writes.
write_metadata_offsets(start, len) == to_be_bytes(start) \o to_be_bytes(len)

\* read_be_u64: split_at(8) panics on an input shorter than 8 bytes; the
\* try_into of the 8 bytes it split off cannot fail.
read_be_u64(input) ==
    IF Len(input) < 8
    THEN [outcome |-> "panic"]
    ELSE [outcome |-> "ok",
          value |-> from_be_bytes(SubSeq(input, 1, 8)),
          rest |-> SubSeq(input, 9, Len(input))]

\* get_metadata_offsets
get_metadata_offsets(offset_slice) ==
    LET first == read_be_u64(offset_slice)
    IN  IF first.outcome # "ok" THEN [outcome |-> first.outcome]
        ELSE LET second == read_be_u64(first.rest)
             IN  IF second.outcome # "ok" THEN [outcome |-> second.outcome]
                 ELSE [outcome |-> "ok", start |-> first.value, len |-> second.value]

\* ---------------------------------------------- metadata.rs: the metadata

PathCode(path) == CHOOSE i \in 1..Len(PathOrder) : PathOrder[i] = path

\* SegmentMetadata::default() with with_hot_cache(hot): no files yet.
NewMetadata(hot) == [files |-> <<>>, hot_cache |-> hot]

\* An add_file that records every file from offset 0.
add_file_from_zero(metadata, file, start, end) ==
    [metadata EXCEPT !.files = @ \o <<[path |-> file, start |-> 0, end |-> end]>>]

\* SegmentMetadata::add_file, for files added in ascending path order.
add_file(metadata, file, start, end) ==
    [metadata EXCEPT !.files = @ \o <<[path |-> file, start |-> start, end |-> end]>>]

\* SegmentMetadata::get_location: "None" for a file the metadata does not hold.
get_location(metadata, file) ==
    IF \E i \in 1..Len(metadata.files) : metadata.files[i].path = file
    THEN LET i == CHOOSE i \in 1..Len(metadata.files) : metadata.files[i].path = file
         IN  [start |-> metadata.files[i].start, end |-> metadata.files[i].end]
    ELSE "None"

\* SegmentMetadata::to_bytes: the serialized blob, as a count of files, a
\* (path, start, end) triple per file, the hot cache's length and its bytes.
to_bytes(metadata) ==
    <<Len(metadata.files)>>
        \o Concat([i \in 1..Len(metadata.files) |->
               <<PathCode(metadata.files[i].path), metadata.files[i].start,
                 metadata.files[i].end>>])
        \o <<Len(metadata.hot_cache)>>
        \o metadata.hot_cache

\* SegmentMetadata::from_buffer: the validated inverse of to_bytes.
from_buffer(buf) ==
    IF Len(buf) < 2 THEN [ok |-> FALSE]
    ELSE LET n == buf[1]
         IN  IF Len(buf) < 2 + 3 * n THEN [ok |-> FALSE]
             ELSE LET hot_len == buf[2 + 3 * n]
                  IN  IF Len(buf) # 2 + 3 * n + hot_len
                         \/ \E i \in 1..n : buf[3 * i - 1] \notin 1..Len(PathOrder)
                      THEN [ok |-> FALSE]
                      ELSE [ok |-> TRUE,
                            metadata |->
                                [files |-> [i \in 1..n |->
                                     [path |-> PathOrder[buf[3 * i - 1]],
                                      start |-> buf[3 * i],
                                      end |-> buf[3 * i + 1]]],
                                 hot_cache |-> SubSeq(buf, 3 + 3 * n, Len(buf))]]

\* ------------------------------------------------------ messages.rs

WriteStaticBuffer(path, buffer, overwrite) ==
    [kind |-> "WriteStaticBuffer", file_path |-> path, buffer |-> buffer,
     overwrite |-> overwrite, lo |-> 0, hi |-> 0]

WriteBuffer(path, buffer, overwrite) ==
    [kind |-> "WriteBuffer", file_path |-> path, buffer |-> buffer,
     overwrite |-> overwrite, lo |-> 0, hi |-> 0]

RemoveFile(path) ==
    [kind |-> "RemoveFile", file_path |-> path, buffer |-> <<>>,
     overwrite |-> FALSE, lo |-> 0, hi |-> 0]

FileExists(path) ==
    [kind |-> "FileExists", file_path |-> path, buffer |-> <<>>,
     overwrite |-> FALSE, lo |-> 0, hi |-> 0]

FileLen(path) ==
    [kind |-> "FileLen", file_path |-> path, buffer |-> <<>>,
     overwrite |-> FALSE, lo |-> 0, hi |-> 0]

SegmentSize ==
    [kind |-> "SegmentSize", file_path |-> "", buffer |-> <<>>,
     overwrite |-> FALSE, lo |-> 0, hi |-> 0]

ReadRange(path, lo, hi) ==
    [kind |-> "ReadRange", file_path |-> path, buffer |-> <<>>,
     overwrite |-> FALSE, lo |-> lo, hi |-> hi]

\* ExportSegment: the buffer field carries the hot cache.
ExportSegment(hot_cache) ==
    [kind |-> "ExportSegment", file_path |-> "", buffer |-> hot_cache,
     overwrite |-> FALSE, lo |-> 0, hi |-> 0]

\* io::Result and plain replies.
Ok(v) == [ok |-> TRUE, val |-> v]

Err(e) == [ok |-> FALSE, err |-> e]

\* The handler panicked: the agent's thread is gone and no reply is sent.
Panic == Err("panic")

\* ------------------------------------- the writer agents: state and views

\* The actor built by DirectoryStreamWriter::create / AioDirectoryStreamWriter::create.
\*   disk         the bytes the stream writer has accepted, in order
\*   current_pos  the write cursor
\*   os_len       how many of those bytes have left the write buffer for the file
\*   flushed_pos  blocking: the tracked field; aio: current_flushed_pos()
\*   mmap_len     blocking: the length of the mapping held in self.file
\*   alive        the agent thread has not panicked
NewAgent(backend, size_hint) ==
    [backend |-> backend, size_hint |-> size_hint, fragments |-> EmptyFragments,
     disk |-> <<>>, current_pos |-> 0, os_len |-> 0, flushed_pos |-> 0,
     mmap_len |-> IF backend = "blocking" THEN size_hint ELSE 0,
     alive |-> TRUE]

\* The file behind the blocking writer is size_hint long (set_len) until the
\* written bytes pass it.
FileLength(st) == Max(st.size_hint, st.os_len)

\* What self.file, the shared mapping, shows: the bytes that reached the file,
\* and zeros up to the mapped length.
MmapView(st) ==
    [i \in 1..st.mmap_len |-> IF i <= st.os_len THEN st.disk[i] ELSE 0]

\* What a read of the aio backend's DmaFile can return: the flushed bytes.
DmaView(st) == SubSeq(st.disk, 1, st.os_len)

\* One physical read (start, len) of a view; short at the end of the view.
ReadAt(view, request) ==
    Slice(view, Min(request.start, Len(view)),
          Min(request.start + request.len, Len(view)))

\* aio read_range, from the results of read_many on: the results arrive in the
\* order `arrival`, are sorted by start, concatenated and truncated.
Assemble(view, requests, arrival, want) ==
    LET results == [i \in 1..Len(requests) |->
                       [start |-> requests[arrival[i]].start,
                        data |-> ReadAt(view, requests[arrival[i]])]]
        sorted == SortByStart(results)
    IN  Truncate(Concat([i \in 1..Len(sorted) |-> sorted[i].data]), want)

\* BufWriter::write_all on the blocking writer: how many bytes are in the file
\* afterwards. A buffer that does not fit the spare capacity flushes first; one
\* of BUFFER_CAPACITY or more goes straight to the file.
BufWriterOsLen(st, len) ==
    LET spare == BUFFER_CAPACITY - (st.current_pos - st.os_len)
    IN  IF len < spare THEN st.os_len
        ELSE IF len >= BUFFER_CAPACITY THEN st.current_pos + len
        ELSE IF len > spare THEN st.current_pos
        ELSE st.os_len

\* ------------------------------------------- the writer agents: handlers
\* Every handler maps the agent's state and a message to the state afterwards
\* and the reply. io_ok says whether the handler's I/O succeeds.

\* get_segment_size
get_segment_size(st, msg) == [st |-> st, reply |-> Ok(st.current_pos)]

\* file_exists
file_exists(st, msg) == [st |-> st, reply |-> Ok(exists(st.fragments, msg.file_path))]

\* file_len: the Option is <<n>> for Some(n) and <<>> for None.
file_len(st, msg) ==
    [st |-> st,
     reply |-> Ok(IF exists(st.fragments, msg.file_path)
                  THEN <<file_size(st.fragments, msg.file_path)>>
                  ELSE <<>>)]

\* write_fragment / write_fragment_owned of both backends: the two message
\* kinds differ only in who owns the buffer.
write_fragment(st, msg, io_ok) ==
    IF ~io_ok THEN [st |-> st, reply |-> Err("Io")]
    ELSE LET start == st.current_pos
             end == start + Len(msg.buffer)
         IN  [st |-> [st EXCEPT
                        !.disk = @ \o msg.buffer,
                        !.current_pos = end,
                        !.os_len = IF st.backend = "blocking"
                                   THEN BufWriterOsLen(st, Len(msg.buffer))
                                   ELSE @,
                        !.fragments = mark_fragment_location(
                                          @, msg.file_path,
                                          [start |-> start, end |-> end],
                                          msg.overwrite)],
              reply |-> Ok("unit")]

\* A delete that clears the whole index.
delete_file_clears_all(st, msg) ==
    [st |-> [st EXCEPT !.fragments = EmptyFragments], reply |-> Ok("unit")]

\* A delete that empties the path's list and keeps its entry.
delete_file_keeps_entry(st, msg) ==
    [st |-> [st EXCEPT !.fragments =
                [p \in DOMAIN @ |-> IF p = msg.file_path THEN <<>> ELSE @[p]]],
     reply |-> Ok("unit")]

\* delete_file
delete_file(st, msg) ==
    [st |-> [st EXCEPT !.fragments = clear_fragments(@, msg.file_path)],
     reply |-> Ok("unit")]

\* A read_range that flushes and moves flushed_pos without reload_reader: the
\* mapping stays the one made earlier.
blocking_read_range_no_reload(st, msg, io_ok) ==
    LET selected_info == get_selected_fragments(st.fragments, msg.file_path,
                                                msg.lo, msg.hi)
    IN  IF ~selected_info.ok THEN [st |-> st, reply |-> Err("NotFound")]
        ELSE IF selected_info.minimum_flushed_pos > st.flushed_pos
        THEN IF ~io_ok THEN [st |-> st, reply |-> Err("Io")]
             ELSE [st |-> [st EXCEPT !.os_len = st.current_pos,
                                     !.flushed_pos = st.current_pos],
                   reply |-> Ok(selected_info)]
        ELSE [st |-> st, reply |-> Ok(selected_info)]

\* blocking read_range: flush and remap when the selection passes flushed_pos.
\* The reply is the mapping and the selection; ReadReply is their bytes.
blocking_read_range(st, msg, io_ok) ==
    LET selected_info == get_selected_fragments(st.fragments, msg.file_path,
                                                msg.lo, msg.hi)
    IN  IF ~selected_info.ok THEN [st |-> st, reply |-> Err("NotFound")]
        ELSE IF selected_info.minimum_flushed_pos > st.flushed_pos
        THEN IF ~io_ok THEN [st |-> st, reply |-> Err("Io")]
             ELSE LET flushed == [st EXCEPT !.os_len = st.current_pos]
                      st2 == [flushed EXCEPT !.mmap_len = FileLength(flushed),
                                             !.flushed_pos = st.current_pos]
                  IN  [st |-> st2, reply |-> Ok(selected_info)]
        ELSE [st |-> st, reply |-> Ok(selected_info)]

\* An ensure_flushed_to that never flushes.
ensure_flushed_to_never(st, max_selection_area) == st

\* aio ensure_flushed_to
ensure_flushed_to(st, max_selection_area) ==
    IF max_selection_area > st.flushed_pos
    THEN [st EXCEPT !.os_len = st.current_pos, !.flushed_pos = st.current_pos]
    ELSE st

\* aio read_range
aio_read_range(st, msg, arrival, io_ok) ==
    LET selected_info == get_selected_fragments(st.fragments, msg.file_path,
                                                msg.lo, msg.hi)
    IN  IF ~selected_info.ok THEN [st |-> st, reply |-> Err("NotFound")]
        ELSE IF ~io_ok THEN [st |-> st, reply |-> Err("Io")]
        ELSE LET st2 == ensure_flushed_to(st, selected_info.minimum_flushed_pos)
             IN  [st |-> st2,
                  reply |-> Ok(Assemble(DmaView(st2), selected_info.fragments,
                                        arrival, RangeLen(msg.lo, msg.hi)))]

\* The identity arrival order of n results.
InOrder(n) == [i \in 1..n |-> i]

\* The arrival orders read_many may deliver n results in.
Arrivals(n) == Perms(n)

\* The arrival orders of the results of a read_range of st.
ReadArrivals(st, msg) ==
    LET selected_info == get_selected_fragments(st.fragments, msg.file_path,
                                                msg.lo, msg.hi)
    IN  IF selected_info.ok /\ st.backend = "aio"
        THEN Arrivals(Len(selected_info.fragments))
        ELSE {<<>>}

\* The bytes a caller gets from a read_range: the aio reply as it is; for the
\* blocking reply, the mapping sliced at the selection, concatenated and
\* truncated.
read_range(st, msg, arrival, io_ok) ==
    IF st.backend = "aio" THEN aio_read_range(st, msg, arrival, io_ok)
    ELSE LET r == blocking_read_range(st, msg, io_ok)
         IN  IF ~r.reply.ok THEN r
             ELSE [st |-> r.st,
                   reply |-> Ok(Assemble(MmapView(r.st), r.reply.val.fragments,
                                         InOrder(Len(r.reply.val.fragments)),
                                         RangeLen(msg.lo, msg.hi)))]

\* ------------------------------------------------- the export handlers

\* No published segment.
\*   by              the export path that wrote the segment
\*   bytes           the published file
\*   recorded        the export built a SegmentMetadata
\*   metadata        the SegmentMetadata it built
\*   metadata_start  the offset at which it wrote the metadata
\*   before          what read_range(p, 0..file_len(p)) returned for every path
\*                   just before the export
NoOut ==
    [by |-> "none", bytes |-> <<>>, recorded |-> FALSE,
     metadata |-> [files |-> <<>>, hot_cache |-> <<>>], metadata_start |-> 0,
     before |-> <<>>]

\* The paths of the index in BTreeMap order.
RECURSIVE PathsInOrder(_, _)
PathsInOrder(frags, order) ==
    IF order = <<>> THEN <<>>
    ELSE (IF Head(order) \in DOMAIN frags THEN <<Head(order)>> ELSE <<>>)
             \o PathsInOrder(frags, Tail(order))

\* What read_range(p, 0..file_len(p)) returns for every path of the index.
FullReads(st) ==
    [p \in DOMAIN st.fragments |->
        read_range(st, ReadRange(p, 0, file_size(st.fragments, p)),
                   InOrder(Len(st.fragments[p])), TRUE).reply.val]

\* blocking export_segment, the loop over self.fragments.inner(): every path's
\* locations, sorted by start, are sliced from the mapping and written, and
\* the path's range in the output is added to the metadata.
RECURSIVE BlockingCopy(_, _, _, _, _)
BlockingCopy(view, frags, paths, written, metadata) ==
    IF paths = <<>> THEN [bytes |-> written, metadata |-> metadata]
    ELSE LET path == Head(paths)
             locations == SortByStart(frags[path])
             data == Concat([i \in 1..Len(locations) |->
                         Slice(view, locations[i].start, locations[i].end)])
         IN  BlockingCopy(view, frags, Tail(paths), written \o data,
                 add_file(metadata, path, Len(written), Len(written) + Len(data)))

\* &self.file[range] panics for a range that ends past the mapping.
SliceInBounds(st) ==
    \A p \in DOMAIN st.fragments : \A i \in 1..Len(st.fragments[p]) :
        st.fragments[p][i].end <= st.mmap_len

\* blocking export_segment. The footer is built in a buffer of its own and
\* the metadata is written a second time in its place.
blocking_export_segment(st, msg, io_ok) ==
    IF ~io_ok THEN [st |-> st, reply |-> Err("Io"), out |-> NoOut]
    ELSE LET st1 == [st EXCEPT !.os_len = st.current_pos]
         IN  IF ~SliceInBounds(st1)
             THEN [st |-> [st1 EXCEPT !.alive = FALSE], reply |-> Panic,
                   out |-> NoOut]
             ELSE LET copied == BlockingCopy(MmapView(st1), st1.fragments,
                                    PathsInOrder(st1.fragments, PathOrder), <<>>,
                                    NewMetadata(msg.buffer))
                      metadata == to_bytes(copied.metadata)
                      start == Len(copied.bytes)
                      buf == write_metadata_offsets(start, start + Len(metadata))
                  IN  [st |-> st1, reply |-> Ok("unit"),
                       out |-> [by |-> "blocking",
                                bytes |-> copied.bytes \o metadata \o metadata,
                                recorded |-> TRUE,
                                metadata |-> copied.metadata,
                                metadata_start |-> start,
                                before |-> FullReads(st)]]

\* aio export_segment: self.fragments.inner().values().flatten()
RECURSIVE Locations(_, _)
Locations(frags, paths) ==
    IF paths = <<>> THEN <<>>
    ELSE [i \in 1..Len(frags[Head(paths)]) |->
             [start |-> frags[Head(paths)][i].start,
              len |-> frags[Head(paths)][i].end - frags[Head(paths)][i].start]]
         \o Locations(frags, Tail(paths))

\* The chunk (counted from 0) that chunks(chunk_size) puts element i in.
ChunkOf(i, chunk_size) == (i - 1) \div chunk_size

\* The orders in which the results of an export can be written: read_many
\* delivers the results of one chunk in any order.
ChunkArrivals(n, chunk_size) ==
    {a \in Perms(n) : \A i \in 1..n : ChunkOf(a[i], chunk_size) = ChunkOf(i, chunk_size)}

\* aio export_segment: the fragments are copied in chunks, and neither
\* metadata nor footer is written. The chunk size divides by the number of
\* paths, which panics for an empty index.
aio_export_segment(st, msg, arrival, io_ok) ==
    IF ~io_ok THEN [st |-> st, reply |-> Err("Io"), out |-> NoOut]
    ELSE LET st1 == [st EXCEPT !.os_len = st.current_pos,
                               !.flushed_pos = st.current_pos]
             locations == Locations(st1.fragments,
                                    PathsInOrder(st1.fragments, PathOrder))
         IN  IF DOMAIN st1.fragments = {}
             THEN [st |-> [st1 EXCEPT !.alive = FALSE], reply |-> Panic,
                   out |-> NoOut]
             ELSE [st |-> st1, reply |-> Ok("unit"),
                   out |-> [by |-> "aio",
                            bytes |-> Concat([i \in 1..Len(locations) |->
                                         ReadAt(DmaView(st1), locations[arrival[i]])]),
                            recorded |-> FALSE,
                            metadata |-> NewMetadata(<<>>),
                            metadata_start |-> 0,
                            before |-> FullReads(st)]]

\* The arrival orders of an export of st.
ExportArrivals(st) ==
    LET n == Len(Locations(st.fragments, PathsInOrder(st.fragments, PathOrder)))
    IN  IF st.backend = "aio" /\ DOMAIN st.fragments # {}
        THEN ChunkArrivals(n, n \div Cardinality(DOMAIN st.fragments))
        ELSE {InOrder(n)}

\* export_segment that fails after its flush, at the creation of the output
\* file or at a write to it: the write buffer has been flushed, and nothing
\* else of the agent has changed.
export_segment_fails_late(st, msg) ==
    [st |-> IF st.backend = "aio"
            THEN [st EXCEPT !.os_len = st.current_pos,
                            !.flushed_pos = st.current_pos]
            ELSE [st EXCEPT !.os_len = st.current_pos],
     reply |-> Err("Io"), out |-> NoOut]

\* An export after which the writer starts again at offset 0.
export_segment_resets(st, msg, arrival, io_ok) ==
    LET r == IF st.backend = "aio" THEN aio_export_segment(st, msg, arrival, io_ok)
             ELSE blocking_export_segment(st, msg, io_ok)
    IN  [st |-> IF r.reply.ok THEN [r.st EXCEPT !.current_pos = 0] ELSE r.st,
         reply |-> r.reply, out |-> r.out]

\* export_segment of the agent's backend.
export_segment(st, msg, arrival, io_ok) ==
    IF st.backend = "aio" THEN aio_export_segment(st, msg, arrival, io_ok)
    ELSE blocking_export_segment(st, msg, io_ok)

\* A get_file_handle that opens a handle of length 0 on a path the index does
\* not hold.
get_file_handle_any(st, path) ==
    LET r == file_len(st, FileLen(path))
    IN  Ok([path |-> path,
            file_size |-> IF r.reply.val = <<>> THEN 0 ELSE r.reply.val[1]])

\* LinearSegmentWriter::get_file_handle: the file's length by a FileLen
\* message, FileDoesNotExist for a path the index does not hold.
get_file_handle(st, path) ==
    LET r == file_len(st, FileLen(path))
    IN  IF r.reply.val = <<>> THEN Err("FileDoesNotExist")
        ELSE Ok([path |-> path, file_size |-> r.reply.val[1]])

\* FileReader::read_bytes: a ReadRange message.
read_bytes(st, handle, lo, hi, arrival) ==
    read_range(st, ReadRange(handle.path, lo, hi), arrival, TRUE)

\* DirectoryWriter::write_segment, the loop over self.files(): every file is
\* read whole through its handle and written at the cursor. A file without a
\* handle ends in unimplemented!().
RECURSIVE WriteSegmentLoop(_, _, _, _, _)
WriteSegmentLoop(st, files, arrivals, written, metadata) ==
    IF files = <<>>
    THEN [st |-> st, ok |-> TRUE, bytes |-> written, metadata |-> metadata]
    ELSE LET file == Head(files)
             handle == get_file_handle(st, file)
         IN  IF ~handle.ok
             THEN [st |-> st, ok |-> FALSE, bytes |-> written, metadata |-> metadata]
             ELSE LET r == read_bytes(st, handle.val, 0, handle.val.file_size,
                                      arrivals[file])
                      cursor == Len(written) + Len(r.reply.val)
                  IN  WriteSegmentLoop(r.st, Tail(files), arrivals,
                          written \o r.reply.val,
                          add_file(metadata, file, Len(written), cursor))

\* DirectoryWriter::write_segment over the directory the agent backs; files
\* is files_to_read. The footer's second value is the cursor after the
\* metadata.
write_segment(st, files, arrivals, io_ok) ==
    IF ~io_ok THEN [st |-> st, reply |-> Err("Io"), out |-> NoOut]
    ELSE LET copied == WriteSegmentLoop(st, PathsInOrder([p \in files |-> <<>>],
                                                         PathOrder),
                                        arrivals, <<>>, NewMetadata(<<>>))
             metadata_start == Len(copied.bytes)
             bytes == to_bytes(copied.metadata)
             cursor == metadata_start + Len(bytes)
         IN  IF ~copied.ok
             THEN [st |-> copied.st, reply |-> Panic, out |-> NoOut]
             ELSE [st |-> copied.st, reply |-> Ok("unit"),
                   out |-> [by |-> "write_segment",
                            bytes |-> copied.bytes \o bytes
                                \o write_metadata_offsets(metadata_start, cursor),
                            recorded |-> TRUE,
                            metadata |-> copied.metadata,
                            metadata_start |-> metadata_start,
                            before |-> FullReads(st)]]

\* The arrival orders of the read write_segment makes of one file.
SegmentArrivals(st, file) ==
    IF exists(st.fragments, file)
    THEN ReadArrivals(st, ReadRange(file, 0, file_size(st.fragments, file)))
    ELSE {<<>>}

\* ------------------------------- actors/aio_writer.rs: the prototype agent

\* write_fragment / write_fragment_owned of the prototype: the path is removed
\* for an overwrite before the write, and the fragment is pushed after it.
proto_write_fragment(st, msg, io_ok) ==
    LET cleared == IF msg.overwrite
                   THEN [st EXCEPT !.fragments = clear_fragments(@, msg.file_path)]
                   ELSE st
        start == st.current_pos
        end == start + Len(msg.buffer)
    IN  IF ~io_ok THEN [st |-> cleared, reply |-> Err("Io")]
        ELSE [st |-> [cleared EXCEPT
                        !.disk = @ \o msg.buffer,
                        !.current_pos = end,
                        !.fragments = mark_fragment_location(
                                          @, msg.file_path,
                                          [start |-> start, end |-> end], FALSE)],
              reply |-> Ok("unit")]

\* read_range of the prototype up to its spawn_local: the path's fragments are
\* cloned and sorted, the writer is flushed up to their end, and the read
\* itself is left to a detached task.
proto_read_range(st, msg, io_ok) ==
    IF ~exists(st.fragments, msg.file_path)
    THEN [st |-> st, spawned |-> FALSE, reply |-> Err("NotFound"),
          fragments_iter |-> <<>>]
    ELSE IF ~io_ok
    THEN [st |-> st, spawned |-> FALSE, reply |-> Err("Io"), fragments_iter |-> <<>>]
    ELSE [st |-> ensure_flushed_to(st, MaxEnd(st.fragments[msg.file_path])),
          spawned |-> TRUE, reply |-> Ok(<<>>),
          fragments_iter |-> SortByStart(st.fragments[msg.file_path])]

\* read_fragmented_buffer: the detached task's read of the file.
read_fragmented_buffer(view, msg, fragments_iter, arrival) ==
    Assemble(view,
             SelectLoop(fragments_iter, msg.lo, 0, RangeLen(msg.lo, msg.hi)),
             arrival, RangeLen(msg.lo, msg.hi))

\* The fragments a detached read works on, were it to look them up in the
\* index when it runs.
LiveFragments(st, task) ==
    IF exists(st.fragments, task.msg.file_path)
    THEN SortByStart(st.fragments[task.msg.file_path])
    ELSE <<>>

\* The fragments a detached read works on: fragments_iter, moved into the task.
DetachedFragments(st, task) == task.fragments_iter

\* ------------------------------------------------- the agent's message loop

\* One message handled from receipt to reply, by the handler of its kind.
handle(st, msg, arrival, io_ok) ==
    CASE msg.kind \in {"WriteStaticBuffer", "WriteBuffer"} ->
            IF st.backend = "aio_writer" THEN proto_write_fragment(st, msg, io_ok)
            ELSE write_fragment(st, msg, io_ok)
      [] msg.kind = "RemoveFile" -> delete_file(st, msg)
      [] msg.kind = "FileExists" -> file_exists(st, msg)
      [] msg.kind = "FileLen" -> file_len(st, msg)
      [] msg.kind = "SegmentSize" -> get_segment_size(st, msg)
      [] msg.kind = "ReadRange" ->
            IF st.backend = "aio_writer"
            THEN LET s == proto_read_range(st, msg, io_ok)
                 IN  IF ~s.spawned THEN [st |-> s.st, reply |-> s.reply]
                     ELSE [st |-> s.st,
                           reply |-> Ok(read_fragmented_buffer(
                                            DmaView(s.st), msg, s.fragments_iter,
                                            arrival))]
            ELSE read_range(st, msg, arrival, io_ok)

\* The arrival orders of the physical reads a message's handler makes.
HandleArrivals(st, msg) ==
    IF msg.kind # "ReadRange" \/ ~exists(st.fragments, msg.file_path) THEN {<<>>}
    ELSE IF st.backend = "blocking" THEN {InOrder(Len(st.fragments[msg.file_path]))}
    ELSE Arrivals(Len(SelectLoop(SortByStart(st.fragments[msg.file_path]),
                                 msg.lo, 0, RangeLen(msg.lo, msg.hi))))

\* ------------------------------------------------------------ the channel

\* A message in the channel.
\*   from   the producer that sent it
\*   seq    its number among that producer's calls
\*   idx    its number among the messages the channel accepted
\*   call   the facade method that sent it
\*   op     send_sync (the producer waits for the reply) or deferred_send
\*   io_ok  whether the handler's I/O will succeed
Envelope(from, seq, idx, c, io_ok) ==
    [from |-> from, seq |-> seq, idx |-> idx, call |-> c.call, op |-> c.op,
     msg |-> c.msg, io_ok |-> io_ok]

NoEnvelope ==
    [from |-> 0, seq |-> 0, idx |-> 0, call |-> "", op |-> "", msg |-> SegmentSize,
     io_ok |-> TRUE]

\* A producer between calls.
\*   pc       "running", "waiting" for a reply, "suspended" in a send, or
\*            "gone" once it has dropped its handle of the mailbox
\*   held     the envelope of the send it is suspended in
\*   pending  the messages the channel held when it dropped its handle
NewProducer == [pc |-> "running", held |-> NoEnvelope, pending |-> 0]

\* A channel that takes one message more than its capacity.
MailboxFullLate(mb) == Len(mb) > MAILBOX_CAPACITY

\* flume::bounded(100): a send finds the channel full.
MailboxFull(mb) == Len(mb) >= MAILBOX_CAPACITY

\* A channel that hands the newest message out first.
EnqueueFront(mb, env) == <<env>> \o mb

\* The channel is first in, first out.
Enqueue(mb, env) == Append(mb, env)

\* An agent that unwraps the send of a reply: it panics when the producer has
\* dropped the response handle.
AfterReplyUnwrap(st, env, handles_dropped) ==
    IF env.idx \in handles_dropped THEN [st EXCEPT !.alive = FALSE] ELSE st

\* run_actor after it has sent the reply to env: a reply nobody waits for is
\* discarded, and the agent goes on to the next message.
AfterReply(st, env, handles_dropped) == st

\* A receiver that reports the channel closed while messages are pending.
DisconnectedEarly(mb, prods) ==
    \A p \in DOMAIN prods : prods[p].pc = "gone"

\* run_actor's receive fails, and the loop ends: every sender handle has been
\* dropped and the channel is empty.
Disconnected(mb, prods) ==
    /\ mb = <<>>
    /\ \A p \in DOMAIN prods : prods[p].pc = "gone"

\* MessageWriter::write: send_sync(msg)?; Ok(n).
MessageWriter_write(reply, n) == IF reply.ok THEN Ok(n) ELSE reply

\* AutoWriterSelector::write: the DeferredResponse, whatever the agent does.
AutoWriterSelector_write(reply) == Ok("DeferredResponse")

\* What the producer's call returns, given the agent's reply.
Returned(env, reply) ==
    CASE env.call = "MessageWriter::write" ->
            MessageWriter_write(reply, Len(env.msg.buffer))
      [] env.call = "write" -> AutoWriterSelector_write(reply)
      [] OTHER -> reply

\* ----------------------------------- directory.rs: the Directory facade

\* LinearSegmentWriter.atomic_files of a new facade: no entry.
NoAtomicFiles == [p \in {} |-> <<>>]

\* atomic_write, its first block: atomic_files.write().insert(path, data).
atomic_files_insert(table, path, data) ==
    [p \in (DOMAIN table) \cup {path} |-> IF p = path THEN data ELSE table[p]]

\* An atomic_read that yields no bytes for a path the table does not hold.
atomic_read_or_default(table, path) ==
    IF path \in DOMAIN table THEN Ok(table[path]) ELSE Ok(<<>>)

\* LinearSegmentWriter::atomic_read
atomic_read(table, path) ==
    IF path \in DOMAIN table THEN Ok(table[path]) ELSE Err("FileDoesNotExist")

\* A clone of the facade between calls, and one inside atomic_write, after
\* the insert and before its send_sync.
IdleClone == [pc |-> "idle", path |-> "", data |-> <<>>]
SendingClone(path, data) == [pc |-> "sending", path |-> path, data |-> data]

\* HasLen for FileReader: len()
FileReader_len(reader) == reader.file_size

\* ------------------------------------- actors/exporter.rs: SegmentWriter

\* SegmentWriter::create
\*   writer   TRUE for Some(BufWriter), FALSE once finalise has taken it
\*   file     the bytes written to the segment file
\*   reply    the reply to the last message, Ok("none") before the first
NewSegmentWriter ==
    [current_pos |-> 0,
     writer |-> TRUE,
     metadata |-> [files |-> [p \in {} |-> [start |-> 0, end |-> 0]],
                   indexes |-> <<>>],
     file |-> <<>>,
     reply |-> Ok("none")]

\* The messages of the SegmentWriter. WriteFile carries, as buffer, the
\* contents the file at file_path has on disk.
WriteFile(path, contents) ==
    [kind |-> "WriteFile", file_path |-> path, buffer |-> contents]

Finalise(indexes) == [kind |-> "Finalise", indexes |-> indexes]

\* The error of writer_mut and of finalise on a writer already taken.
AlreadyFinalised == Err("Writer has already been finalised.")

\* SegmentWriter::mark_file_location: BTreeMap::insert on metadata.files.
mark_file_location(sw, path, location) ==
    [sw EXCEPT !.metadata.files =
        [p \in (DOMAIN @) \cup {path} |-> IF p = path THEN location ELSE @[p]]]

\* The bytes of the SegmentWriter's metadata: per file its path and range,
\* then the indexes.
segment_metadata_to_bytes(metadata) ==
    LET listed == PathsInOrder(metadata.files, PathOrder)
    IN  <<Len(listed)>>
            \o Concat([i \in 1..Len(listed) |->
                   <<PathCode(listed[i]), metadata.files[listed[i]].start,
                     metadata.files[listed[i]].end>>])
            \o <<Len(metadata.indexes)>> \o metadata.indexes

\* SegmentWriter::write_file: writer_mut()? comes first, then the copy.
write_file(sw, msg, io_ok) ==
    IF ~sw.writer THEN [st |-> sw, reply |-> AlreadyFinalised]
    ELSE IF ~io_ok THEN [st |-> sw, reply |-> Err("Io")]
    ELSE LET start == sw.current_pos
             end == start + Len(msg.buffer)
             copied == [sw EXCEPT !.file = @ \o msg.buffer, !.current_pos = end]
         IN  [st |-> mark_file_location(copied, msg.file_path,
                                        [start |-> start, end |-> end]),
              reply |-> Ok("unit")]

\* SegmentWriter::write_buffer
write_buffer(sw, msg, io_ok) ==
    IF ~sw.writer THEN [st |-> sw, reply |-> AlreadyFinalised]
    ELSE IF ~io_ok THEN [st |-> sw, reply |-> Err("Io")]
    ELSE LET start == sw.current_pos
             end == start + Len(msg.buffer)
             written == [sw EXCEPT !.file = @ \o msg.buffer, !.current_pos = end]
         IN  [st |-> mark_file_location(written, msg.file_path,
                                        [start |-> start, end |-> end]),
              reply |-> Ok("unit")]

\* SegmentWriter::finalise: the indexes are added to the metadata and the
\* metadata is serialised before the writer is taken.
finalise(sw, msg, io_ok) ==
    LET extended == [sw EXCEPT !.metadata.indexes = @ \o msg.indexes]
        buffer == segment_metadata_to_bytes(extended.metadata)
        start == sw.current_pos
        taken == [extended EXCEPT !.writer = FALSE]
    IN  IF ~sw.writer THEN [st |-> extended, reply |-> AlreadyFinalised]
        ELSE IF ~io_ok THEN [st |-> taken, reply |-> Err("Io")]
        ELSE [st |-> [taken EXCEPT !.file =
                         @ \o buffer \o write_metadata_offsets(start, Len(buffer))],
              reply |-> Ok("unit")]

\* The SegmentWriter's handler of a message.
segment_writer_handle(sw, msg, io_ok) ==
    CASE msg.kind = "WriteFile" -> write_file(sw, msg, io_ok)
      [] msg.kind = "WriteBuffer" -> write_buffer(sw, msg, io_ok)
      [] msg.kind = "Finalise" -> finalise(sw, msg, io_ok)

\* The index names a Finalise message carries, as numbers.
IndexLists == {<<>>, <<1>>}

\* The messages sent to a SegmentWriter.
SegmentMessages ==
    {WriteFile(p, b) : p \in Paths, b \in Buffers}
        \cup {WriteBuffer(p, b, FALSE) : p \in Paths, b \in Buffers}
        \cup {Finalise(indexes) : indexes \in IndexLists}

\* --------------------------------- directories/reader.rs: DirectoryReader

\* The lock files tantivy asks every directory about.
IGNORE_FILES == {".tantivy-meta.lock", ".tantivy-writer.lock"}

\* The paths asked of a reader, in the order a BTreeMap of paths keeps them.
ReaderPathOrder == <<".tantivy-meta.lock", "/a", "/b">>

ReaderPaths == {ReaderPathOrder[i] : i \in 1..Len(ReaderPathOrder)}

\* DirectoryReader::new: the reader of a segment's bytes and metadata.
NewDirectoryReader(bytes, metadata) == [metadata |-> metadata, bytes |-> bytes]

\* get_location(..).is_some(): the metadata has a location for the file.
location_is_some(metadata, file) ==
    \E i \in 1..Len(metadata.files) : metadata.files[i].path = file

\* A published segment as write_segment and the exports lay it out: the
\* files of contents one after the other in path order, each recorded in
\* the metadata at the offsets it was written at.
RECURSIVE PublishedSegment(_, _, _)
PublishedSegment(order, contents, seg) ==
    IF order = <<>> THEN seg
    ELSE LET file == Head(order)
         IN  IF file \notin DOMAIN contents
             THEN PublishedSegment(Tail(order), contents, seg)
             ELSE PublishedSegment(Tail(order), contents,
                      [metadata |-> add_file(seg.metadata, file, Len(seg.bytes),
                                             Len(seg.bytes) + Len(contents[file])),
                       bytes |-> seg.bytes \o contents[file]])

\* DirectoryReader::get_file_handle: the slice of the segment at the file's
\* location, or FileDoesNotExist.
reader_get_file_handle(rd, path) ==
    IF ~location_is_some(rd.metadata, path) THEN Err("FileDoesNotExist")
    ELSE LET pos == get_location(rd.metadata, path)
         IN  Ok(Slice(rd.bytes, pos.start, pos.end))

\* DirectoryReader::delete: accepted for the lock files, refused for the rest.
reader_delete(rd, path) ==
    IF path \in IGNORE_FILES THEN Ok("unit") ELSE Err("IoError")

\* DirectoryReader::exists: false for every path that is not a lock file,
\* the metadata's answer for a lock file.
reader_exists(rd, path) ==
    IF path \notin IGNORE_FILES THEN Ok(FALSE)
    ELSE Ok(location_is_some(rd.metadata, path))

\* DirectoryReader::open_write: a writer that discards what it is given.
reader_open_write(rd, path) == Ok("NoOpWriter")

\* DirectoryReader::atomic_read: a copy of the slice at the file's location.
reader_atomic_read(rd, path) ==
    IF ~location_is_some(rd.metadata, path) THEN Err("FileDoesNotExist")
    ELSE LET pos == get_location(rd.metadata, path)
         IN  Ok(Slice(rd.bytes, pos.start, pos.end))

\* DirectoryReader::atomic_write: accepted and discarded.
reader_atomic_write(rd, path, data) == Ok("unit")

\* The calls of the Directory trait on a reader.
ReaderCalls == {"get_file_handle", "delete", "exists", "open_write",
                "atomic_read", "atomic_write"}

\* One call on the reader: every method takes &self, and the reader has no
\* field a method could change behind it.
reader_call(rd, call, path, data) ==
    [reader |-> rd,
     reply |-> CASE call = "get_file_handle" -> reader_get_file_handle(rd, path)
                 [] call = "delete" -> reader_delete(rd, path)
                 [] call = "exists" -> reader_exists(rd, path)
                 [] call = "open_write" -> reader_open_write(rd, path)
                 [] call = "atomic_read" -> reader_atomic_read(rd, path)
                 [] call = "atomic_write" -> reader_atomic_write(rd, path, data)]

\* ------------------------------------------------------------- the state

VARIABLES
    agent,      \* the writer agent (NewAgent)
    out,        \* the segment the step just taken published, or NoOut
    logical,    \* per path, the buffers of its surviving writes, concatenated
    writes,     \* write messages counted against MaxWrites so far
    mailbox,    \* the envelopes in the agent's channel, oldest first
    producers,  \* per producer, where it is in its call (NewProducer)
    arrived,    \* every envelope the channel accepted, in arrival order
    replied,    \* the replies sent so far, each with its envelope's idx
    detached,   \* the reads the prototype agent has spawned and not finished
    dropped,    \* the idx of every envelope whose response handle was dropped
    actor_loop, \* run_actor: "running", or "terminated" once it has returned
    footer,     \* a footer slice, with the values it was written from
    offsets,    \* what get_metadata_offsets made of the slice
    atomic_files,   \* the facade's side-table, shared by its clones
    clones,         \* per clone of the facade, where it is in atomic_write
    last_atomic,    \* per path, the atomic_write that inserted last
    handles,        \* the FileReader handles opened so far
    segment_writer, \* the SegmentWriter of a published segment
    twin,           \* an agent of the blocking backend sent what agent is sent
    pair_reply,     \* the replies of agent and twin to the last message
    reader,         \* a DirectoryReader over a published segment
    reader_reply    \* the last call on the reader, with what it returned

vars ==
    <<agent, out, logical, writes, mailbox, producers, arrived, replied, detached,
      dropped, actor_loop, footer, offsets, atomic_files, clones, last_atomic,
      handles, segment_writer, twin, pair_reply, reader, reader_reply>>

\* The state of the index and of the last export.
storeVars == <<out, logical, writes>>

\* The state of the channel and of the producers.
channelVars ==
    <<mailbox, producers, arrived, replied, detached, dropped, actor_loop>>

\* The state of a reader of footers.
footerVars == <<footer, offsets>>

\* The state of the facade and of its callers.
facadeVars == <<atomic_files, clones, last_atomic, handles>>

\* The state of the published-segment writer.
exporterVars == <<segment_writer>>

\* A new facade: an empty side-table, idle clones, no handle.
FacadeInit ==
    /\ atomic_files = NoAtomicFiles
    /\ clones = [c \in Clones |-> IdleClone]
    /\ last_atomic = [p \in {} |-> [by |-> 0, data |-> <<>>, calls |-> 0]]
    /\ handles = <<>>

\* A SegmentWriter just created.
ExporterInit == segment_writer = NewSegmentWriter

\* The state of a second agent run beside the first.
pairVars == <<twin, pair_reply>>

\* No message sent to the pair yet.
NoPairReply == [sent |-> "none", aio |-> Ok("none"), blocking |-> Ok("none")]

\* A second agent, of the blocking backend.
PairInit ==
    /\ twin = NewAgent("blocking", 0)
    /\ pair_reply = NoPairReply

\* The state of a reader of a published segment.
readerVars == <<reader, reader_reply>>

\* No call made on the reader yet.
NoReaderReply == [call |-> "none", path |-> "", reply |-> Ok("none")]

\* A reader over a segment that holds no file.
ReaderInit ==
    /\ reader = NewDirectoryReader(<<>>, NewMetadata(<<>>))
    /\ reader_reply = NoReaderReply

\* Nothing exported, nothing written.
StoreInit ==
    /\ out = NoOut
    /\ logical = [p \in {} |-> <<>>]
    /\ writes = 0

\* No footer written or read.
NoOffsets == [outcome |-> "none"]

FooterInit ==
    /\ footer = [bytes |-> <<>>, start |-> 0, len |-> 0]
    /\ offsets = NoOffsets

\* An empty channel and producers between calls.
ChannelInit ==
    /\ mailbox = <<>>
    /\ producers = [p \in Producers |-> NewProducer]
    /\ arrived = <<>>
    /\ replied = <<>>
    /\ detached = {}
    /\ dropped = {}
    /\ actor_loop = "running"

Init ==
    /\ \/ agent = NewAgent("aio", 0)
       \/ \E h \in SizeHints : agent = NewAgent("blocking", h)
    /\ StoreInit
    /\ ChannelInit
    /\ FooterInit
    /\ FacadeInit
    /\ ExporterInit
    /\ PairInit
    /\ ReaderInit

\* The surviving writes after a write of buffer to path.
LogicalWrite(path, buffer, overwrite) ==
    [p \in (DOMAIN logical) \cup {path} |->
        IF p = path
        THEN (IF path \in DOMAIN logical /\ ~overwrite THEN logical[path] ELSE <<>>)
                 \o buffer
        ELSE logical[p]]

\* The agent handles a write message (write_static or write_owned).
Write(msg, io_ok) ==
    /\ agent.alive
    /\ writes < MaxWrites
    /\ LET r == write_fragment(agent, msg, io_ok)
       IN  /\ agent' = r.st
           /\ logical' = IF r.reply.ok
                         THEN LogicalWrite(msg.file_path, msg.buffer, msg.overwrite)
                         ELSE logical
           /\ writes' = IF r.reply.ok THEN writes + 1 ELSE writes
    /\ out' = NoOut
    /\ UNCHANGED <<channelVars, footerVars, facadeVars, exporterVars, pairVars, readerVars>>

\* The agent handles a delete message.
Delete(msg) ==
    /\ agent.alive
    /\ LET r == delete_file(agent, msg)
       IN  agent' = r.st
    /\ logical' = [p \in (DOMAIN logical) \ {msg.file_path} |-> logical[p]]
    /\ out' = NoOut
    /\ UNCHANGED writes
    /\ UNCHANGED <<channelVars, footerVars, facadeVars, exporterVars, pairVars, readerVars>>

\* The agent handles an exists, file_len or segment_size message.
Query(msg) ==
    /\ agent.alive
    /\ LET r == CASE msg.kind = "FileExists" -> file_exists(agent, msg)
                  [] msg.kind = "FileLen" -> file_len(agent, msg)
                  [] OTHER -> get_segment_size(agent, msg)
       IN  agent' = r.st
    /\ out' = NoOut
    /\ UNCHANGED <<logical, writes>>
    /\ UNCHANGED <<channelVars, footerVars, facadeVars, exporterVars, pairVars, readerVars>>

\* The agent handles a read_range message.
Read(msg, io_ok) ==
    /\ agent.alive
    /\ \E arrival \in ReadArrivals(agent, msg) :
         LET r == read_range(agent, msg, arrival, io_ok)
         IN  agent' = r.st
    /\ out' = NoOut
    /\ UNCHANGED <<logical, writes>>
    /\ UNCHANGED <<channelVars, footerVars, facadeVars, exporterVars, pairVars, readerVars>>

\* The agent handles an export message.
Export(msg, io_ok) ==
    /\ agent.alive
    /\ \E arrival \in ExportArrivals(agent) :
         LET r == export_segment(agent, msg, arrival, io_ok)
         IN  /\ agent' = r.st
             /\ out' = r.out
    /\ UNCHANGED <<logical, writes>>
    /\ UNCHANGED <<channelVars, footerVars, facadeVars, exporterVars, pairVars, readerVars>>

\* DirectoryWriter::write_segment runs over the agent's directory with
\* files_to_read = files.
WriteSegment(files, io_ok) ==
    /\ agent.alive
    /\ \E a1 \in SegmentArrivals(agent, PathOrder[1]),
          a2 \in SegmentArrivals(agent, PathOrder[2]) :
         LET arrivals == [p \in Paths |-> IF p = PathOrder[1] THEN a1 ELSE a2]
             r == write_segment(agent, files, arrivals, io_ok)
         IN  /\ agent' = r.st
             /\ out' = r.out
    /\ UNCHANGED <<logical, writes>>
    /\ UNCHANGED <<channelVars, footerVars, facadeVars, exporterVars, pairVars, readerVars>>

\* The write messages the selector sends: write sends an owned buffer that
\* appends, atomic_write a static buffer that overwrites.
WriteMessages ==
    {WriteBuffer(p, b, FALSE) : p \in Paths, b \in Buffers}
        \cup {WriteStaticBuffer(p, b, TRUE) : p \in Paths, b \in Buffers}

QueryMessages ==
    {FileExists(p) : p \in Paths} \cup {FileLen(p) : p \in Paths} \cup {SegmentSize}

ReadMessages ==
    {ReadRange(p, lo, hi) : p \in Paths, lo \in Offsets, hi \in Offsets}

\* The agent at work on its index: writes, deletes, queries and reads.
Next ==
    \/ \E msg \in WriteMessages, io_ok \in BOOLEAN : Write(msg, io_ok)
    \/ \E p \in Paths : Delete(RemoveFile(p))
    \/ \E msg \in QueryMessages : Query(msg)
    \/ \E msg \in ReadMessages, io_ok \in BOOLEAN : Read(msg, io_ok)

Spec == Init /\ [][Next]_vars

\* The messages that change the agent's state: writes, deletes and reads.
NextIndex ==
    \/ \E msg \in WriteMessages, io_ok \in BOOLEAN : Write(msg, io_ok)
    \/ \E p \in Paths : Delete(RemoveFile(p))
    \/ \E msg \in ReadMessages, io_ok \in BOOLEAN : Read(msg, io_ok)

SpecIndex == Init /\ [][NextIndex]_vars

\* The same behaviours, for the properties of read_range.
SpecRead == Init /\ [][NextIndex]_vars

\* The same with the export paths: export_segment and write_segment.
NextExport ==
    \/ \E msg \in WriteMessages, io_ok \in BOOLEAN : Write(msg, io_ok)
    \/ \E p \in Paths : Delete(RemoveFile(p))
    \/ \E msg \in QueryMessages : Query(msg)
    \/ \E msg \in ReadMessages, io_ok \in BOOLEAN : Read(msg, io_ok)
    \/ \E hot \in HotCaches, io_ok \in BOOLEAN : Export(ExportSegment(hot), io_ok)
    \/ \E files \in SUBSET Paths, io_ok \in BOOLEAN : WriteSegment(files, io_ok)

SpecExport == Init /\ [][NextExport]_vars

\* ------------------------------------------- producers, channel and agent

\* The calls a producer makes on the facades: the selector's write (deferred),
\* MessageWriter::write, atomic_write, read, get_file_handle and delete.
Calls ==
    {[call |-> "write", op |-> "deferred_send",
      msg |-> WriteBuffer(PathOrder[1], <<1>>, FALSE)],
     [call |-> "MessageWriter::write", op |-> "send_sync",
      msg |-> WriteStaticBuffer(PathOrder[1], <<2, 3>>, FALSE)],
     [call |-> "atomic_write", op |-> "send_sync",
      msg |-> WriteStaticBuffer(PathOrder[1], <<1>>, TRUE)],
     [call |-> "read", op |-> "send_sync", msg |-> ReadRange(PathOrder[1], 0, 3)],
     [call |-> "get_file_handle", op |-> "send_sync", msg |-> FileLen(PathOrder[1])],
     [call |-> "delete", op |-> "send_sync", msg |-> RemoveFile(PathOrder[1])]}

\* The fates of a call's I/O: only a write's may fail.
Fates(c) ==
    IF c.msg.kind \in {"WriteStaticBuffer", "WriteBuffer"} THEN BOOLEAN ELSE {TRUE}

\* The call a flooding producer repeats.
FloodCall ==
    [call |-> "write", op |-> "deferred_send",
     msg |-> WriteBuffer(PathOrder[1], <<>>, FALSE)]

\* The calls begun so far.
Started ==
    Len(arrived) + Cardinality({p \in Producers : producers[p].pc = "suspended"})

\* The calls producer p has had accepted by the channel.
SentBy(p) == SelectSeq(arrived, LAMBDA e : e.from = p)

\* The channel accepts env from producer p.
Accept(p, env) ==
    /\ mailbox' = Enqueue(mailbox, env)
    /\ arrived' = Append(arrived, env)
    /\ producers' = [producers EXCEPT
                        ![p] = [pc |-> IF env.op = "send_sync" THEN "waiting"
                                       ELSE "running",
                                held |-> NoEnvelope, pending |-> 0]]

\* Producer p makes call c: send_sync or deferred_send. The send is accepted
\* at once unless the channel is full, and then the producer is suspended.
Send(p, c, io_ok, limit) ==
    /\ producers[p].pc = "running"
    /\ Started < limit
    /\ LET env == Envelope(p, Len(SentBy(p)) + 1, Len(arrived) + 1, c, io_ok)
       IN  IF MailboxFull(mailbox)
           THEN /\ producers' = [producers EXCEPT
                                    ![p] = [pc |-> "suspended", held |-> env,
                                            pending |-> 0]]
                /\ UNCHANGED <<mailbox, arrived>>
           ELSE Accept(p, env)
    /\ UNCHANGED <<agent, replied, detached, dropped, actor_loop>>
    /\ UNCHANGED <<storeVars, footerVars, facadeVars, exporterVars, pairVars, readerVars>>

\* A suspended producer's send goes through once the channel has room.
Resume(p) ==
    /\ producers[p].pc = "suspended"
    /\ ~MailboxFull(mailbox)
    /\ Accept(p, [producers[p].held EXCEPT !.idx = Len(arrived) + 1])
    /\ UNCHANGED <<agent, replied, detached, dropped, actor_loop>>
    /\ UNCHANGED <<storeVars, footerVars, facadeVars, exporterVars, pairVars, readerVars>>

\* The reply to env is sent: a producer waiting in send_sync goes on.
Reply(env, reply) ==
    /\ replied' = Append(replied, [idx |-> env.idx, reply |-> reply])
    /\ producers' = IF env.op = "send_sync"
                    THEN [producers EXCEPT ![env.from] = NewProducer]
                    ELSE producers

\* The agent takes the oldest message and runs its handler to the end. The
\* prototype's read_range ends with the spawn of the detached read.
Handle ==
    /\ agent.alive
    /\ actor_loop = "running"
    /\ mailbox # <<>>
    /\ LET env == Head(mailbox)
       IN  /\ mailbox' = Tail(mailbox)
           /\ IF agent.backend = "aio_writer" /\ env.msg.kind = "ReadRange"
              THEN LET s == proto_read_range(agent, env.msg, env.io_ok)
                   IN  IF s.spawned
                       THEN /\ agent' = s.st
                            /\ detached' = detached \cup
                                   {[env |-> env, msg |-> env.msg,
                                     fragments_iter |-> s.fragments_iter]}
                            /\ UNCHANGED <<replied, producers>>
                       ELSE /\ agent' = AfterReply(s.st, env, dropped)
                            /\ Reply(env, s.reply)
                            /\ UNCHANGED detached
              ELSE /\ \E arrival \in HandleArrivals(agent, env.msg) :
                        LET r == handle(agent, env.msg, arrival, env.io_ok)
                        IN  /\ agent' = AfterReply(r.st, env, dropped)
                            /\ Reply(env, r.reply)
                   /\ UNCHANGED detached
    /\ UNCHANGED <<arrived, dropped, actor_loop, storeVars, footerVars, facadeVars, exporterVars, pairVars, readerVars>>

\* A detached read of the prototype runs and replies.
CompleteRead(task) ==
    /\ task \in detached
    /\ LET fragments_iter == DetachedFragments(agent, task)
           requests == SelectLoop(fragments_iter, task.msg.lo, 0,
                                  RangeLen(task.msg.lo, task.msg.hi))
       IN  \E arrival \in Arrivals(Len(requests)) :
               Reply(task.env,
                     Ok(read_fragmented_buffer(DmaView(agent), task.msg,
                                               fragments_iter, arrival)))
    /\ detached' = detached \ {task}
    /\ UNCHANGED <<agent, mailbox, arrived, dropped, actor_loop>>
    /\ UNCHANGED <<storeVars, footerVars, facadeVars, exporterVars, pairVars, readerVars>>

\* Producer p drops the DeferredResponse of a call the agent has not answered.
DropResponse(p, idx) ==
    /\ producers[p].pc \in {"running", "gone"}
    /\ idx \in 1..Len(arrived)
    /\ arrived[idx].from = p
    /\ arrived[idx].op = "deferred_send"
    /\ idx \notin dropped
    /\ \A i \in 1..Len(replied) : replied[i].idx # idx
    /\ dropped' = dropped \cup {idx}
    /\ UNCHANGED <<agent, mailbox, producers, arrived, replied, detached, actor_loop>>
    /\ UNCHANGED <<storeVars, footerVars, facadeVars, exporterVars, pairVars, readerVars>>

\* Producer p drops its handle of the mailbox, between calls.
Close(p) ==
    /\ producers[p].pc = "running"
    /\ producers' = [producers EXCEPT
                        ![p] = [pc |-> "gone", held |-> NoEnvelope,
                                pending |-> Len(mailbox)]]
    /\ UNCHANGED <<agent, mailbox, arrived, replied, detached, dropped, actor_loop>>
    /\ UNCHANGED <<storeVars, footerVars, facadeVars, exporterVars, pairVars, readerVars>>

\* run_actor returns: the receive found the channel closed.
Terminate ==
    /\ agent.alive
    /\ actor_loop = "running"
    /\ Disconnected(mailbox, producers)
    /\ actor_loop' = "terminated"
    /\ UNCHANGED <<agent, mailbox, producers, arrived, replied, detached, dropped>>
    /\ UNCHANGED <<storeVars, footerVars, facadeVars, exporterVars, pairVars, readerVars>>

\* An agent of any kind behind an empty channel.
InitChannel ==
    /\ agent \in {NewAgent("aio", 0), NewAgent("blocking", 0),
                  NewAgent("aio_writer", 0)}
    /\ StoreInit
    /\ ChannelInit
    /\ FooterInit
    /\ FacadeInit
    /\ ExporterInit
    /\ PairInit
    /\ ReaderInit

NextChannel ==
    \/ \E p \in Producers, c \in Calls :
           \E io_ok \in Fates(c) : Send(p, c, io_ok, MaxSends)
    \/ Handle
    \/ \E task \in detached : CompleteRead(task)

SpecChannel == InitChannel /\ [][NextChannel]_vars

\* The calls of producers that drop the responses they hold: the selector's
\* write (deferred) and read.
DropCalls == {c \in Calls : c.call \in {"write", "read"}}

\* The calls of producers that drop their handles of the mailbox: the
\* selector's write (deferred), atomic_write and delete.
CloseCalls == {c \in Calls : c.call \in {"write", "atomic_write", "delete"}}

\* A writer agent behind an empty channel.
InitClose ==
    /\ agent \in {NewAgent("aio", 0), NewAgent("blocking", 0)}
    /\ StoreInit
    /\ ChannelInit
    /\ FooterInit
    /\ FacadeInit
    /\ ExporterInit
    /\ PairInit
    /\ ReaderInit

\* Producers that drop the responses of their deferred writes.
NextDrop ==
    \/ \E p \in Producers, c \in DropCalls :
           \E io_ok \in Fates(c) : Send(p, c, io_ok, MaxSends)
    \/ \E p \in Producers, idx \in 1..MaxSends : DropResponse(p, idx)
    \/ Handle

SpecDrop == InitClose /\ [][NextDrop]_vars

\* Producers that drop their handles of the mailbox.
NextClose ==
    \/ \E p \in Producers, c \in CloseCalls :
           \E io_ok \in Fates(c) : Send(p, c, io_ok, MaxSends)
    \/ \E p \in Producers : Close(p)
    \/ Handle
    \/ Terminate

\* The agent's thread runs run_actor until it returns.
SpecClose ==
    InitClose /\ [][NextClose]_vars /\ WF_vars(Handle) /\ WF_vars(Terminate)

\* One producer floods the channel with deferred writes.
InitFlood ==
    /\ agent \in {NewAgent("aio", 0), NewAgent("blocking", 0)}
    /\ StoreInit
    /\ ChannelInit
    /\ FooterInit
    /\ FacadeInit
    /\ ExporterInit
    /\ PairInit
    /\ ReaderInit

NextFlood ==
    \/ Send(1, FloodCall, TRUE, MAILBOX_CAPACITY + MaxOverflow)
    \/ Resume(1)
    \/ Handle

SpecFlood == InitFlood /\ [][NextFlood]_vars

\* ----------------------------------------------------- the footer codec

\* The offsets and lengths a footer is written from.
FooterValues == {0, 1, 255, 256, 65537}

\* write_metadata_offsets(file, start, len) into an empty buffer.
WriteOffsets(start, len) ==
    /\ footer' = [bytes |-> write_metadata_offsets(start, len),
                  start |-> start, len |-> len]
    /\ offsets' = NoOffsets
    /\ UNCHANGED <<agent, storeVars, channelVars, facadeVars, exporterVars, pairVars, readerVars>>

\* A reader is handed the first n bytes of the footer only.
TakeSlice(n) ==
    /\ n < Len(footer.bytes)
    /\ footer' = [footer EXCEPT !.bytes = SubSeq(@, 1, n)]
    /\ offsets' = NoOffsets
    /\ UNCHANGED <<agent, storeVars, channelVars, facadeVars, exporterVars, pairVars, readerVars>>

\* get_metadata_offsets(slice)
Decode ==
    /\ offsets = NoOffsets
    /\ offsets' = get_metadata_offsets(footer.bytes)
    /\ UNCHANGED <<agent, footer, storeVars, channelVars, facadeVars, exporterVars, pairVars, readerVars>>

InitFooter ==
    /\ agent = NewAgent("blocking", 0)
    /\ StoreInit
    /\ ChannelInit
    /\ FooterInit
    /\ FacadeInit
    /\ ExporterInit
    /\ PairInit
    /\ ReaderInit

NextFooter ==
    \/ \E start \in FooterValues, len \in FooterValues : WriteOffsets(start, len)
    \/ \E n \in 0..(METADATA_HEADER_SIZE - 1) : TakeSlice(n)
    \/ Decode

SpecFooter == InitFooter /\ [][NextFooter]_vars

\* ------------------------------------------ the facade and its callers

\* atomic_write of clone c up to its send_sync: the insert into the
\* side-table, under the table's write lock.
AtomicInsert(c, path, data) ==
    /\ agent.alive
    /\ clones[c].pc = "idle"
    /\ writes + Cardinality({d \in Clones : clones[d].pc = "sending"}) < MaxWrites
    /\ atomic_files' = atomic_files_insert(atomic_files, path, data)
    /\ last_atomic' =
          [p \in (DOMAIN last_atomic) \cup {path} |->
              IF p = path
              THEN [by |-> c, data |-> data,
                    calls |-> IF path \in DOMAIN last_atomic
                              THEN last_atomic[path].calls + 1 ELSE 1]
              ELSE last_atomic[p]]
    /\ clones' = [clones EXCEPT ![c] = SendingClone(path, data)]
    /\ UNCHANGED <<agent, handles, storeVars, channelVars, footerVars, exporterVars, pairVars, readerVars>>

\* atomic_write of clone c from its send_sync on: the agent handles the
\* WriteStaticBuffer with overwrite = true, and the call returns its reply.
\* The call counts against MaxWrites whether or not the write succeeds.
AtomicSend(c, io_ok) ==
    /\ agent.alive
    /\ clones[c].pc = "sending"
    /\ LET msg == WriteStaticBuffer(clones[c].path, clones[c].data, TRUE)
           r == handle(agent, msg, <<>>, io_ok)
       IN  /\ agent' = r.st
           /\ logical' = IF r.reply.ok
                         THEN LogicalWrite(msg.file_path, msg.buffer, TRUE)
                         ELSE logical
           /\ writes' = writes + 1
    /\ clones' = [clones EXCEPT ![c] = IdleClone]
    /\ out' = NoOut
    /\ UNCHANGED <<atomic_files, last_atomic, handles, channelVars, footerVars,
                   exporterVars, pairVars, readerVars>>

\* get_file_handle(path): a FileReader for a path that exists, an error and
\* no handle otherwise.
GetFileHandle(path) ==
    /\ agent.alive
    /\ Len(handles) < MaxHandles
    /\ LET r == get_file_handle(agent, path)
       IN  handles' = IF r.ok THEN Append(handles, r.val) ELSE handles
    /\ UNCHANGED <<agent, atomic_files, clones, last_atomic, storeVars, channelVars,
                   footerVars, exporterVars, pairVars, readerVars>>

InitFacade ==
    /\ agent \in {NewAgent("aio", 0), NewAgent("blocking", 0)}
    /\ StoreInit
    /\ ChannelInit
    /\ FooterInit
    /\ FacadeInit
    /\ ExporterInit
    /\ PairInit
    /\ ReaderInit

\* Threads at work on clones of the facade: atomic writes, writes through a
\* MessageWriter, and deletes.
NextFacade ==
    \/ \E c \in Clones, p \in Paths, b \in FacadeBuffers : AtomicInsert(c, p, b)
    \/ \E c \in Clones, io_ok \in BOOLEAN : AtomicSend(c, io_ok)
    \/ \E p \in Paths, b \in FacadeBuffers, io_ok \in BOOLEAN :
          Write(WriteStaticBuffer(p, b, FALSE), io_ok)
    \/ \E p \in Paths : Delete(RemoveFile(p))

SpecFacade == InitFacade /\ [][NextFacade]_vars

\* Threads that call atomic_write on clones of the facade, and nothing else;
\* every forwarded write succeeds.
NextRace ==
    \/ \E c \in Clones, p \in Paths, b \in FacadeBuffers : AtomicInsert(c, p, b)
    \/ \E c \in Clones : AtomicSend(c, TRUE)

SpecRace == InitFacade /\ [][NextRace]_vars

\* File handles opened while the files are written, overwritten and deleted.
NextHandles ==
    \/ \E msg \in WriteMessages, io_ok \in BOOLEAN : Write(msg, io_ok)
    \/ \E p \in Paths : Delete(RemoveFile(p))
    \/ \E p \in Paths : GetFileHandle(p)

SpecHandles == InitFacade /\ [][NextHandles]_vars

\* ------------------------------------------------- the two backends

\* One message sent to an aio agent and to a blocking agent with the same
\* history: each handles it with its own handler, and the write succeeds or
\* fails in both. The physical reads of the aio agent arrive in any order.
PairHandle(msg, io_ok) ==
    /\ agent.alive /\ twin.alive
    /\ msg.kind \in {"WriteStaticBuffer", "WriteBuffer"} => writes < MaxWrites
    /\ \E arrival \in HandleArrivals(agent, msg) :
         LET a == handle(agent, msg, arrival, io_ok)
             b == handle(twin, msg, <<>>, io_ok)
         IN  /\ agent' = a.st
             /\ twin' = b.st
             /\ pair_reply' = [sent |-> msg.kind, aio |-> a.reply,
                               blocking |-> b.reply]
             /\ writes' = IF msg.kind \in {"WriteStaticBuffer", "WriteBuffer"}
                              /\ a.reply.ok
                           THEN writes + 1 ELSE writes
    /\ UNCHANGED <<out, logical, channelVars, footerVars, facadeVars, exporterVars,
                   readerVars>>

InitPair ==
    /\ agent = NewAgent("aio", 0)
    /\ \E h \in SizeHints : twin = NewAgent("blocking", h)
    /\ pair_reply = NoPairReply
    /\ StoreInit
    /\ ChannelInit
    /\ FooterInit
    /\ FacadeInit
    /\ ExporterInit
    /\ ReaderInit

\* The reads sent to both backends: short ranges, and ranges that reach the
\* end of a file of a few bytes.
PairReadMessages ==
    {ReadRange(p, lo, hi) : p \in Paths, lo \in Offsets, hi \in Offsets \cup {3}}

\* Every message but the export, sent to both backends.
NextPair ==
    \/ \E msg \in WriteMessages, io_ok \in BOOLEAN : PairHandle(msg, io_ok)
    \/ \E p \in Paths : PairHandle(RemoveFile(p), TRUE)
    \/ \E msg \in QueryMessages : PairHandle(msg, TRUE)
    \/ \E msg \in PairReadMessages : PairHandle(msg, TRUE)

SpecPair == InitPair /\ [][NextPair]_vars

\* ------------------------------------------- the published-segment writer

\* The SegmentWriter handles one message; the message counts against
\* MaxWrites.
SegmentHandle(msg, io_ok) ==
    /\ writes < MaxWrites
    /\ LET r == segment_writer_handle(segment_writer, msg, io_ok)
       IN  segment_writer' = [r.st EXCEPT !.reply = r.reply]
    /\ writes' = writes + 1
    /\ UNCHANGED <<agent, out, logical, channelVars, footerVars, facadeVars,
                   pairVars, readerVars>>

\* Files and buffers written to a segment, and the segment finalised.
NextSegment ==
    \/ \E p \in Paths, b \in Buffers, io_ok \in BOOLEAN :
          SegmentHandle(WriteFile(p, b), io_ok)
    \/ \E p \in Paths, b \in Buffers, io_ok \in BOOLEAN :
          SegmentHandle(WriteBuffer(p, b, FALSE), io_ok)
    \/ \E indexes \in IndexLists, io_ok \in BOOLEAN :
          SegmentHandle(Finalise(indexes), io_ok)

InitSegment ==
    /\ agent = NewAgent("blocking", 0)
    /\ StoreInit
    /\ ChannelInit
    /\ FooterInit
    /\ FacadeInit
    /\ ExporterInit
    /\ PairInit
    /\ ReaderInit

SpecSegment == InitSegment /\ [][NextSegment]_vars

\* ------------------------------------------ the published-segment reader

\* One call of the Directory trait on the reader.
ReaderCall(call, path, data) ==
    /\ LET r == reader_call(reader, call, path, data)
       IN  /\ reader' = r.reader
           /\ reader_reply' = [call |-> call, path |-> path, reply |-> r.reply]
    /\ UNCHANGED <<agent, storeVars, channelVars, footerVars, facadeVars,
                   exporterVars, pairVars>>

\* A reader over a segment of any files among ReaderPaths.
InitReader ==
    /\ \E files \in SUBSET ReaderPaths :
          \E contents \in [files -> Buffers] :
             LET seg == PublishedSegment(ReaderPathOrder, contents,
                            [metadata |-> NewMetadata(<<>>), bytes |-> <<>>])
             IN  reader = NewDirectoryReader(seg.bytes, seg.metadata)
    /\ reader_reply = NoReaderReply
    /\ agent = NewAgent("blocking", 0)
    /\ StoreInit
    /\ ChannelInit
    /\ FooterInit
    /\ FacadeInit
    /\ ExporterInit
    /\ PairInit

NextReader ==
    \/ \E p \in ReaderPaths : ReaderCall("get_file_handle", p, <<>>)
    \/ \E p \in ReaderPaths : ReaderCall("delete", p, <<>>)
    \/ \E p \in ReaderPaths : ReaderCall("exists", p, <<>>)
    \/ \E p \in ReaderPaths : ReaderCall("open_write", p, <<>>)
    \/ \E p \in ReaderPaths : ReaderCall("atomic_read", p, <<>>)
    \/ \E p \in ReaderPaths, b \in Buffers : ReaderCall("atomic_write", p, b)

SpecReader == InitReader /\ [][NextReader]_vars

\* ------------------------------------------------- properties of the index

\* The full-range read message of path p in state st.
FullRange(st, p) == ReadRange(p, 0, file_size(st.fragments, p))

\* C1: after any sequence of writes (overwriting or appending) and deletes,
\* every path that exists reads back, over 0..file_len, as the concatenation
\* of the buffers of its surviving writes in the order they were processed,
\* whatever order the physical reads complete in.
C1_FullReadIsSurvivingWrites ==
    agent.alive =>
        /\ DOMAIN agent.fragments = DOMAIN logical
        /\ \A p \in DOMAIN agent.fragments :
             /\ file_size(agent.fragments, p) = Len(logical[p])
             /\ \A arrival \in ReadArrivals(agent, FullRange(agent, p)) :
                  LET r == read_range(agent, FullRange(agent, p), arrival, TRUE)
                  IN  r.reply.ok /\ r.reply.val = logical[p]

\* A path whose surviving writes are two fragments that are not neighbours on
\* disk, while the bytes between them belong to no path any more.
C1_Witness ==
    /\ agent.alive
    /\ DOMAIN agent.fragments = {PathOrder[1]}
    /\ Len(agent.fragments[PathOrder[1]]) = 2
    /\ agent.fragments[PathOrder[1]][2].start > agent.fragments[PathOrder[1]][1].end
    /\ Len(logical[PathOrder[1]]) >= 2

\* C2: for 0 <= lo <= hi <= file_len(p), read_range(p, lo..hi) is the slice
\* [lo, hi) of the full read of p, for fragments that are not contiguous and
\* for lo on a fragment boundary as for any other.
C2_RangeReadIsSlice ==
    agent.alive =>
        \A p \in DOMAIN agent.fragments :
            \A lo, hi \in 0..file_size(agent.fragments, p) :
                lo <= hi =>
                    \A arrival \in ReadArrivals(agent, ReadRange(p, lo, hi)) :
                        LET r == read_range(agent, ReadRange(p, lo, hi), arrival, TRUE)
                        IN  /\ r.reply.ok
                            /\ r.reply.val = Slice(FullReads(agent)[p], lo, hi)

\* A path of two non-empty fragments with another path's bytes between them:
\* lo = the first fragment's length is a boundary, and lo = 1 is past the
\* start.
C2_Witness ==
    /\ agent.alive
    /\ \E p \in DOMAIN agent.fragments :
         /\ Len(agent.fragments[p]) = 2
         /\ agent.fragments[p][1].end > agent.fragments[p][1].start
         /\ agent.fragments[p][2].end > agent.fragments[p][2].start
         /\ agent.fragments[p][2].start > agent.fragments[p][1].end

\* C13: in every reachable state of the index, total_size() is the sum of
\* file_size(p) over the paths p for which exists(p) holds.
C13_TotalSizeIsSumOfFileSizes ==
    total_size(agent.fragments) =
        SumSeq([i \in 1..Len(PathOrder) |->
                   IF exists(agent.fragments, PathOrder[i])
                   THEN file_size(agent.fragments, PathOrder[i])
                   ELSE 0])

\* One path exists in two fragments, the other was deleted, and its bytes
\* belong to no path: the total is positive and below the write cursor.
C13_Witness ==
    /\ \E p \in DOMAIN agent.fragments : Len(agent.fragments[p]) = 2
    /\ \E p \in Paths : ~exists(agent.fragments, p)
    /\ total_size(agent.fragments) > 0
    /\ total_size(agent.fragments) < agent.current_pos

\* The path is gone from st: exists is false, file_len is None and a
\* read_range of any range is NotFound, whether or not its I/O would succeed.
Gone(st, p) ==
    /\ file_exists(st, FileExists(p)).reply = Ok(FALSE)
    /\ file_len(st, FileLen(p)).reply = Ok(<<>>)
    /\ \A lo, hi \in Offsets \cup {st.current_pos + 1}, io_ok \in BOOLEAN :
         read_range(st, ReadRange(p, lo, hi), <<>>, io_ok).reply = Err("NotFound")

\* C14: delete(p) returns Ok whether or not p exists; after one delete(p), and
\* after a second one, p is gone (exists false, file_len None, read_range
\* NotFound), and a write to p brings it back.
C14_DeleteIsIdempotent ==
    agent.alive =>
        \A p \in Paths :
            LET once == delete_file(agent, RemoveFile(p))
                twice == delete_file(once.st, RemoveFile(p))
                again == write_fragment(twice.st, WriteBuffer(p, <<1>>, FALSE), TRUE)
            IN  /\ once.reply.ok /\ twice.reply.ok
                /\ Gone(once.st, p) /\ Gone(twice.st, p)
                /\ twice.st = once.st
                /\ file_exists(again.st, FileExists(p)).reply = Ok(TRUE)

\* Bytes were written and every path written was deleted since: the agent
\* has handled a delete of a path that existed.
C14_Witness ==
    /\ agent.alive
    /\ agent.current_pos > 0
    /\ DOMAIN agent.fragments = {}
    /\ \A p \in Paths : Gone(agent, p)

\* What a read of the whole of path p returns in st, for every order the
\* physical reads may complete in.
WholeReads(st, p) ==
    {read_range(st, FullRange(st, p), arrival, TRUE).reply :
        arrival \in ReadArrivals(st, FullRange(st, p))}

\* C15: from any state, write(p, A, overwrite) then write(p, B, append)
\* leaves p with the two fragments of A and B and reading as A followed by
\* B; and from any state, those after such a pair among them, a
\* write(p, C, overwrite) leaves p reading as C with file_len(p) = |C|.
C15_OverwriteReplacesAppendExtends ==
    agent.alive =>
        /\ \A p \in Paths, A \in Buffers, B \in Buffers :
             LET s1 == write_fragment(agent, WriteStaticBuffer(p, A, TRUE), TRUE).st
                 s2 == write_fragment(s1, WriteBuffer(p, B, FALSE), TRUE).st
                 c == agent.current_pos
             IN  /\ s2.fragments[p] =
                        <<[start |-> c, end |-> c + Len(A)],
                          [start |-> c + Len(A), end |-> c + Len(A) + Len(B)]>>
                 /\ WholeReads(s2, p) = {Ok(A \o B)}
                 /\ file_len(s2, FileLen(p)).reply = Ok(<<Len(A) + Len(B)>>)
        /\ \A p \in Paths, C \in Buffers :
             LET s3 == write_fragment(agent, WriteStaticBuffer(p, C, TRUE), TRUE).st
             IN  /\ s3.fragments[p] =
                        <<[start |-> agent.current_pos,
                           end |-> agent.current_pos + Len(C)]>>
                 /\ WholeReads(s3, p) = {Ok(C)}
                 /\ file_len(s3, FileLen(p)).reply = Ok(<<Len(C)>>)

\* Three writes to one path, the last one an overwrite: the path is the one
\* fragment of the last write, behind the bytes of the two it replaced.
C15_Witness ==
    /\ agent.alive
    /\ writes = 3
    /\ \E p \in DOMAIN agent.fragments :
         /\ DOMAIN agent.fragments = {p}
         /\ Len(agent.fragments[p]) = 1
         /\ agent.fragments[p][1].start >= 2
         /\ agent.fragments[p][1].end = agent.current_pos
         /\ Len(logical[p]) = agent.current_pos - agent.fragments[p][1].start
         /\ Len(logical[p]) > 0

\* C16: a step that removes p from the index, a delete of p, leaves the
\* write cursor where it was and does no physical work, and for every other
\* path q exists(q), file_len(q) and the bytes of every read_range of q are
\* what they were before.
C16_DeleteTouchesOnlyItsEntry ==
    [][\A p \in Paths :
         (exists(agent.fragments, p) /\ ~exists(agent'.fragments, p)) =>
             /\ get_segment_size(agent', SegmentSize).reply
                    = get_segment_size(agent, SegmentSize).reply
             /\ agent'.disk = agent.disk
             /\ agent'.os_len = agent.os_len
             /\ agent'.flushed_pos = agent.flushed_pos
             /\ \A q \in Paths \ {p} :
                  /\ file_exists(agent', FileExists(q)).reply
                         = file_exists(agent, FileExists(q)).reply
                  /\ file_len(agent', FileLen(q)).reply
                         = file_len(agent, FileLen(q)).reply
                  /\ \A lo, hi \in 0..agent.current_pos :
                       \A arrival \in ReadArrivals(agent, ReadRange(q, lo, hi)) :
                           read_range(agent', ReadRange(q, lo, hi), arrival, TRUE).reply
                               = read_range(agent, ReadRange(q, lo, hi), arrival,
                                            TRUE).reply]_vars

\* The first path was deleted and the second is there in two fragments with
\* the deleted bytes between them, none of the bytes flushed.
C16_Witness ==
    /\ agent.alive
    /\ DOMAIN agent.fragments = {PathOrder[2]}
    /\ Len(agent.fragments[PathOrder[2]]) = 2
    /\ agent.fragments[PathOrder[2]][1].end < agent.fragments[PathOrder[2]][2].start
    /\ agent.fragments[PathOrder[2]][1].start < agent.fragments[PathOrder[2]][1].end
    /\ agent.flushed_pos = 0

\* C17: in every reachable state every fragment (s, e) of every fragment
\* list has s < e <= current_pos.
C17_FragmentsNonEmptyBelowCursor ==
    \A p \in DOMAIN agent.fragments :
        \A i \in 1..Len(agent.fragments[p]) :
            /\ agent.fragments[p][i].start < agent.fragments[p][i].end
            /\ agent.fragments[p][i].end <= agent.current_pos

\* C18: a write of zero bytes creates no fragment: to a path that does not
\* exist it leaves exists(path) false and file_len(path) None, and to a path
\* that exists, appending, it leaves the path's fragment list as it was.
C18_EmptyWriteCreatesNoFragment ==
    agent.alive =>
        \A p \in Paths :
            \A msg \in {WriteBuffer(p, <<>>, FALSE), WriteStaticBuffer(p, <<>>, FALSE)} :
                LET r == write_fragment(agent, msg, TRUE)
                IN  /\ r.reply.ok
                    /\ IF exists(agent.fragments, p)
                       THEN r.st.fragments[p] = agent.fragments[p]
                       ELSE /\ file_exists(r.st, FileExists(p)).reply = Ok(FALSE)
                            /\ file_len(r.st, FileLen(p)).reply = Ok(<<>>)

\* C19: in every reachable state of the blocking backend flushed_pos is at
\* most current_pos, and every byte below flushed_pos has left the write
\* buffer for the file and lies inside the mapping held in self.file, where
\* it shows as written.
C19_FlushedPosIsFlushedAndMapped ==
    agent.backend = "blocking" =>
        /\ agent.flushed_pos <= agent.current_pos
        /\ agent.flushed_pos <= agent.os_len
        /\ agent.flushed_pos <= agent.mmap_len
        /\ \A i \in 1..agent.flushed_pos : MmapView(agent)[i] = agent.disk[i]

\* A blocking agent created without a size hint that flushed and remapped
\* for a read, and has accepted more bytes since.
C19_Witness ==
    /\ agent.backend = "blocking"
    /\ agent.size_hint = 0
    /\ agent.flushed_pos > 0
    /\ agent.flushed_pos < agent.current_pos
    /\ agent.mmap_len = agent.flushed_pos

C22_ReadPastFlushedPosFlushes ==
    agent.alive =>
        \A p \in DOMAIN agent.fragments :
            MaxEnd(agent.fragments[p]) > agent.flushed_pos =>
                \A lo, hi \in 0..file_size(agent.fragments, p) :
                    lo <= hi =>
                        \A arrival \in ReadArrivals(agent, ReadRange(p, lo, hi)) :
                            LET r == read_range(agent, ReadRange(p, lo, hi), arrival,
                                                TRUE)
                                top == MaxEnd(agent.fragments[p])
                            IN  /\ r.reply = Ok(Slice(logical[p], lo, hi))
                                /\ r.st.flushed_pos >= top
                                /\ r.st.os_len >= top
                                /\ r.st.backend = "blocking" => r.st.mmap_len >= top

\* A read has flushed two bytes or more of a path held in two fragments:
\* flushed_pos stands at the end of the path's last fragment.
C22_Witness ==
    /\ agent.alive
    /\ agent.flushed_pos >= 2
    /\ \E p \in DOMAIN agent.fragments :
         /\ Len(agent.fragments[p]) = 2
         /\ MaxEnd(agent.fragments[p]) = agent.flushed_pos

\* C23: a read_range whose requests all end at or below flushed_pos changes
\* nothing in the agent: no flush (os_len), no remap (mmap_len), flushed_pos
\* as before, even when the path has later fragments that are not flushed.
C23_FlushedReadTouchesNothing ==
    agent.alive =>
        \A p \in DOMAIN agent.fragments :
            \A lo, hi \in 0..file_size(agent.fragments, p) :
                LET selected_info == get_selected_fragments(agent.fragments, p, lo, hi)
                    requests == selected_info.fragments
                IN  (/\ lo < hi
                     /\ requests # <<>>
                     /\ \A i \in 1..Len(requests) :
                            requests[i].start + requests[i].len <= agent.flushed_pos)
                    => \A arrival \in ReadArrivals(agent, ReadRange(p, lo, hi)) :
                          LET r == read_range(agent, ReadRange(p, lo, hi), arrival, TRUE)
                          IN  /\ r.reply.ok
                              /\ r.st = agent

\* The ranges of a file of `size` bytes that end past its end: those that
\* start inside it, at its end and past its end.
PastEnd(size) == {<<lo, hi>> \in (0..size + 2) \X (size + 1..size + 3) : lo <= hi}

\* C24: for an existing path a read_range that ends past the end of the file
\* does not fail: it returns the bytes from lo to the end of the file, and no
\* bytes when lo is at or past the end.
C24_ReadPastEndTruncates ==
    agent.alive =>
        \A p \in DOMAIN agent.fragments :
            LET size == file_size(agent.fragments, p)
            IN  \A range \in PastEnd(size) :
                    LET msg == ReadRange(p, range[1], range[2])
                    IN  \A arrival \in ReadArrivals(agent, msg) :
                            LET r == read_range(agent, msg, arrival, TRUE)
                            IN  /\ r.reply.ok
                                /\ r.reply.val =
                                       IF range[1] >= size THEN <<>>
                                       ELSE Slice(logical[p], range[1], size)

\* A file of two bytes or more in two non-empty fragments, all of it flushed
\* by a read: ranges past its end start inside, at and past the end.
C24_Witness ==
    /\ agent.alive
    /\ \E p \in DOMAIN agent.fragments :
         /\ Len(agent.fragments[p]) = 2
         /\ \A i \in 1..2 : agent.fragments[p][i].end > agent.fragments[p][i].start
         /\ agent.flushed_pos >= MaxEnd(agent.fragments[p])

\* Every fragment of the index, with its path and its place in the path's list.
AllFragments(frags) ==
    {<<p, i>> : p \in DOMAIN frags, i \in 1..MaxWrites + 1} \cap
        {<<p, i>> \in (DOMAIN frags) \X (1..MaxWrites + 1) : i <= Len(frags[p])}

\* C31: the fragments of the index do not overlap one another, within every
\* path's list the starts increase strictly in insertion order, and sorting
\* a list by start leaves it as it is.
C31_FragmentsDisjointAndOrdered ==
    /\ \A x, y \in AllFragments(agent.fragments) :
          x # y =>
              LET f == agent.fragments[x[1]][x[2]]
                  g == agent.fragments[y[1]][y[2]]
              IN  f.end <= g.start \/ g.end <= f.start
    /\ \A p \in DOMAIN agent.fragments :
          /\ \A i \in 1..Len(agent.fragments[p]) - 1 :
                agent.fragments[p][i].start < agent.fragments[p][i + 1].start
          /\ SortByStart(agent.fragments[p]) = agent.fragments[p]

\* C32: get_selected_fragments emits a request only for a fragment that
\* gives at least one byte: no request it emits has length zero.
C32_NoEmptyRequest ==
    \A p \in DOMAIN agent.fragments :
        \A lo, hi \in 0..file_size(agent.fragments, p) + 1 :
            LET selected_info == get_selected_fragments(agent.fragments, p, lo, hi)
            IN  \A i \in 1..Len(selected_info.fragments) :
                    selected_info.fragments[i].len > 0

\* C33: the requests get_selected_fragments emits for lo..hi are capped by
\* the bytes still wanted: their lengths add up to
\* min(hi, file_len) - min(lo, file_len), which is never more than hi - lo.
C33_RequestsAddUpToRange ==
    \A p \in DOMAIN agent.fragments :
        LET size == file_size(agent.fragments, p)
        IN  \A lo, hi \in 0..size + 1 :
                lo <= hi =>
                    LET selected_info ==
                            get_selected_fragments(agent.fragments, p, lo, hi)
                        total == SumSeq([i \in 1..Len(selected_info.fragments) |->
                                            selected_info.fragments[i].len])
                    IN  /\ total = Min(hi, size) - Min(lo, size)
                        /\ total <= hi - lo

C25_AtomicReadIsLastAtomicWrite ==
    \A p \in Paths :
        atomic_read(atomic_files, p) =
            IF p \in DOMAIN last_atomic THEN Ok(last_atomic[p].data)
            ELSE Err("FileDoesNotExist")

\* Every call has returned; one path was written through a write stream only
\* and is in the index, another was written atomically twice, last by the
\* second clone.
C25_Witness ==
    /\ \A c \in Clones : clones[c].pc = "idle"
    /\ \E p, q \in Paths :
         /\ p \in DOMAIN agent.fragments
         /\ p \notin DOMAIN last_atomic
         /\ q \in DOMAIN last_atomic
         /\ last_atomic[q].calls = 2
         /\ last_atomic[q].by = 2
         /\ last_atomic[q].data # <<>>

\* C26: the len() of a file handle is the file_len its path had when
\* get_file_handle ran, and no later step changes it: a step opens a handle
\* only on a path that exists, with that path's length, and leaves every
\* handle opened earlier as it was.
C26_HandleLenIsCaptured ==
    [][/\ \A h \in 1..Len(handles) :
             /\ h <= Len(handles')
             /\ handles'[h].path = handles[h].path
             /\ FileReader_len(handles'[h]) = FileReader_len(handles[h])
       /\ \A n \in (Len(handles) + 1)..Len(handles') :
             /\ exists(agent.fragments, handles'[n].path)
             /\ FileReader_len(handles'[n]) =
                    file_size(agent.fragments, handles'[n].path)]_vars

\* Two handles of one path, opened at different lengths, and the path deleted
\* since: the handles keep the lengths they were opened with.
C26_Witness ==
    /\ Len(handles) = 2
    /\ handles[1].path = handles[2].path
    /\ FileReader_len(handles[1]) # FileReader_len(handles[2])
    /\ ~exists(agent.fragments, handles[1].path)

\* C36: however the atomic_write calls of several clones interleave, once
\* they have all returned atomic_read(p) returns the bytes the agent holds for
\* p, those of read_range(p, 0..file_len(p)).
C36_SideTableAgreesWithAgent ==
    (agent.alive /\ \A c \in Clones : clones[c].pc = "idle") =>
        \A p \in DOMAIN atomic_files :
            /\ exists(agent.fragments, p)
            /\ atomic_read(atomic_files, p) =
                   read_range(agent, FullRange(agent, p),
                              InOrder(Len(agent.fragments[p])), TRUE).reply

\* C37: the side-table follows the agent. A delete that removes a path from
\* the index leaves atomic_read of the path not found; and an atomic_write
\* whose forwarded write fails, the agent unchanged, does not leave its
\* bytes in the side-table unless the agent holds them.
C37_SideTableFollowsAgent ==
    [][/\ \A p \in Paths :
            (exists(agent.fragments, p) /\ ~exists(agent'.fragments, p))
                => ~atomic_read(atomic_files', p).ok
       /\ \A c \in Clones :
            (clones[c].pc = "sending" /\ clones'[c].pc = "idle" /\ agent' = agent)
                => (atomic_read(atomic_files', clones[c].path) = Ok(clones[c].data)
                       => /\ exists(agent'.fragments, clones[c].path)
                          /\ read_range(agent', FullRange(agent', clones[c].path),
                                        InOrder(Len(agent'.fragments[clones[c].path])),
                                        TRUE).reply = Ok(clones[c].data))]_vars

\* ------------------------------------------ properties of published segments

\* Reading path from a published file the way a reader of the format does:
\* the footer in the last METADATA_HEADER_SIZE bytes gives (start, len), the
\* bytes [start, start + len) deserialize to the metadata, and the file is the
\* slice at metadata.files[path].
ReadPublished(bytes, path) ==
    LET size == Len(bytes)
        failed == [ok |-> FALSE, val |-> <<>>]
    IN  IF size < METADATA_HEADER_SIZE THEN failed
        ELSE LET found == get_metadata_offsets(
                               Slice(bytes, size - METADATA_HEADER_SIZE, size))
             IN  IF found.outcome # "ok" THEN failed
                 ELSE IF found.start + found.len > size - METADATA_HEADER_SIZE
                 THEN failed
                 ELSE LET decoded == from_buffer(Slice(bytes, found.start,
                                                       found.start + found.len))
                      IN  IF ~decoded.ok THEN failed
                          ELSE IF \A i \in 1..Len(decoded.metadata.files) :
                                      decoded.metadata.files[i].path # path
                          THEN failed
                          ELSE LET location == get_location(decoded.metadata, path)
                               IN  IF location.end > size \/ location.start > location.end
                                   THEN failed
                                   ELSE [ok |-> TRUE,
                                         val |-> Slice(bytes, location.start,
                                                       location.end)]

\* C3: after an export succeeds, every path present at the export reads back
\* from the published file, through footer, metadata and slice, as the bytes
\* read_range(p, 0..file_len(p)) returned just before the export.
C3_ExportRoundTrip ==
    out.by # "none" =>
        \A p \in DOMAIN out.before :
            ReadPublished(out.bytes, p) = [ok |-> TRUE, val |-> out.before[p]]

\* C4: every published segment ends with the 16-byte footer
\* (metadata_start, metadata_length), big-endian, where metadata_length is
\* the length of the metadata blob, so that start + length + 16 is the size
\* of the file.
C4_FooterIsStartAndLength ==
    out.by # "none" =>
        /\ Len(out.bytes) >= METADATA_HEADER_SIZE
        /\ LET found == get_metadata_offsets(
                             Slice(out.bytes, Len(out.bytes) - METADATA_HEADER_SIZE,
                                   Len(out.bytes)))
           IN  /\ found.outcome = "ok"
               /\ found.start + found.len + METADATA_HEADER_SIZE = Len(out.bytes)

\* C5: the ranges the export records in metadata.files tile the content
\* region: in ascending path order the first starts at 0, each starts where
\* the one before ends, each is as long as file_len(path) was at the export,
\* and the last ends at metadata_start.
C5_FilesTileContent ==
    out.recorded =>
        LET files == out.metadata.files
            n == Len(files)
        IN  /\ \A i \in 1..n :
                 /\ files[i].start = (IF i = 1 THEN 0 ELSE files[i - 1].end)
                 /\ files[i].path \in DOMAIN out.before
                 /\ files[i].end - files[i].start = Len(out.before[files[i].path])
            /\ \A i, j \in 1..n :
                 i < j => PathCode(files[i].path) < PathCode(files[j].path)
            /\ out.metadata_start = (IF n = 0 THEN 0 ELSE files[n].end)

\* An export that recorded two non-empty files, the first of them held in
\* two fragments with the other's bytes between them on disk.
C5_Witness ==
    /\ out.recorded
    /\ Len(out.metadata.files) = 2
    /\ out.metadata.files[1].end >= 2
    /\ out.metadata.files[2].end > out.metadata.files[2].start
    /\ Len(agent.fragments[PathOrder[1]]) = 2

\* C21: once an export has completed the writer starts again at offset 0: the
\* first write after the export is recorded as a fragment that starts at
\* physical offset 0.
C21_WriteAfterExportStartsAtZero ==
    [][(out.by \in {"aio", "blocking"} /\ writes' = writes + 1) =>
          \A p \in DOMAIN agent'.fragments :
              (p \notin DOMAIN agent.fragments
                  \/ agent'.fragments[p] # agent.fragments[p])
                  => agent'.fragments[p][Len(agent'.fragments[p])].start = 0]_vars

\* The active segment of agent b is that of agent a: the agent is alive, and
\* the fragment index, the segment size and the bytes every path reads as are
\* the same.
SameSegment(a, b) ==
    /\ b.alive
    /\ b.fragments = a.fragments
    /\ get_segment_size(b, SegmentSize).reply = get_segment_size(a, SegmentSize).reply
    /\ FullReads(b) = FullReads(a)

\* C27: an export, whether it succeeds or fails, and wherever it fails,
\* leaves the active segment as it was, and an export sent afterwards runs
\* as the first would have.
C27_ExportLeavesSegment ==
    agent.alive =>
        \A hot \in HotCaches :
            LET msg == ExportSegment(hot)
                results ==
                    {export_segment(agent, msg, arrival, io_ok) :
                        arrival \in ExportArrivals(agent), io_ok \in BOOLEAN}
                        \cup {export_segment_fails_late(agent, msg)}
            IN  \A r \in results :
                    /\ SameSegment(agent, r.st)
                    /\ \A arrival \in ExportArrivals(r.st) :
                           export_segment(r.st, msg, arrival, TRUE).reply.ok

C29_ExportsAgree ==
    (agent.alive /\ twin.alive) =>
        \A hot \in HotCaches :
            \A arrival \in ExportArrivals(agent) :
                LET a == export_segment(agent, ExportSegment(hot), arrival, TRUE)
                    b == export_segment(twin, ExportSegment(hot),
                                        InOrder(Len(arrival)), TRUE)
                IN  (a.reply.ok /\ b.reply.ok) => a.out.bytes = b.out.bytes

\* The state of a SegmentWriter that a message must not change once the
\* writer is taken: the cursor, the metadata and the file.
SegmentState(sw) ==
    [current_pos |-> sw.current_pos, metadata |-> sw.metadata,
     writer |-> sw.writer, file |-> sw.file]

\* C30: once finalise has taken the writer, every write_buffer, write_file
\* and finalise message is answered with the already-finalised error and
\* leaves current_pos and the metadata, its files and its indexes, as they
\* were.
C30_FinalisedWriterRejects ==
    ~segment_writer.writer =>
        \A msg \in SegmentMessages, io_ok \in BOOLEAN :
            LET r == segment_writer_handle(segment_writer, msg, io_ok)
            IN  /\ r.reply = AlreadyFinalised
                /\ SegmentState(r.st) = SegmentState(segment_writer)

\* C38: the export of the blocking backend never slices its mapping past the
\* mapped length: whatever the size_hint and the history, the export returns,
\* and every file it copied is the bytes that were written to it.
C38_BlockingExportWithinMapping ==
    (agent.alive /\ agent.backend = "blocking") =>
        \A hot \in HotCaches :
            LET r == export_segment(agent, ExportSegment(hot),
                                    InOrder(Len(Locations(agent.fragments,
                                        PathsInOrder(agent.fragments, PathOrder)))),
                                    TRUE)
                files == r.out.metadata.files
            IN  /\ r.st.alive
                /\ r.reply.ok
                /\ Len(files) = Cardinality(DOMAIN agent.fragments)
                /\ \A i \in 1..Len(files) :
                      Slice(r.out.bytes, files[i].start, files[i].end)
                          = logical[files[i].path]

\* C39: an export on an agent whose index is empty returns without aborting
\* in both backends, and the segment it publishes holds no file content.
C39_EmptyExportCompletes ==
    (agent.alive /\ DOMAIN agent.fragments = {}) =>
        \A hot \in HotCaches, arrival \in ExportArrivals(agent) :
            LET r == export_segment(agent, ExportSegment(hot), arrival, TRUE)
            IN  /\ r.st.alive
                /\ r.reply.ok
                /\ r.out.by = agent.backend
                /\ r.out.recorded => Len(r.out.metadata.files) = 0
                /\ r.out.metadata_start = 0

\* C40: on a reader of a published segment, exists(path) is true exactly when
\* get_file_handle(path) succeeds, which is exactly when the metadata has a
\* location for the path; and no call on the reader changes what
\* get_file_handle or atomic_read return.
C40_ReaderExistsIffHandle ==
    \A path \in ReaderPaths :
        /\ reader_exists(reader, path) = Ok(TRUE)
               <=> reader_get_file_handle(reader, path).ok
        /\ reader_get_file_handle(reader, path).ok
               <=> location_is_some(reader.metadata, path)
        /\ \A call \in ReaderCalls, p \in ReaderPaths, b \in Buffers :
              LET r == reader_call(reader, call, p, b)
              IN  /\ reader_get_file_handle(r.reader, path)
                        = reader_get_file_handle(reader, path)
                  /\ reader_atomic_read(r.reader, path)
                        = reader_atomic_read(reader, path)

\* ------------------------------------------------- properties of the footer

\* C6: get_metadata_offsets on a slice shorter than 16 bytes returns Err and
\* does not abort; on 16 bytes it returns the two values
\* write_metadata_offsets wrote.
C6_ShortSliceIsErr ==
    offsets # NoOffsets =>
        IF Len(footer.bytes) < METADATA_HEADER_SIZE
        THEN offsets.outcome = "err"
        ELSE offsets = [outcome |-> "ok", start |-> footer.start, len |-> footer.len]

\* C35: a write message that fails with an I/O error leaves the fragment
\* index as it was, for an overwrite as for an append: the failed write
\* records no fragment and the path's earlier list is still there.
C35_FailedWriteKeepsIndex ==
    agent.alive =>
        \A msg \in WriteMessages :
            LET r == handle(agent, msg, <<>>, FALSE)
            IN  /\ ~r.reply.ok
                /\ r.st.fragments = agent.fragments

\* ------------------------------------------------ properties of the channel

\* The agent as it was created.
Created == NewAgent(agent.backend, agent.size_hint)

\* The arrival order of a handler's reads when nothing reorders them.
SequentialArrival(st, msg) ==
    InOrder(IF exists(st.fragments, msg.file_path)
            THEN Len(st.fragments[msg.file_path]) ELSE 0)

\* The agent after it has handled the envelopes of log one after the other.
RECURSIVE ReplayState(_, _)
ReplayState(st, log) ==
    IF log = <<>> THEN st
    ELSE ReplayState(handle(st, Head(log).msg, SequentialArrival(st, Head(log).msg),
                            Head(log).io_ok).st,
                     Tail(log))

\* The reply to the last envelope of log when the agent handles log one
\* envelope after the other.
SequentialReply(log) ==
    LET before == ReplayState(Created, SubSeq(log, 1, Len(log) - 1))
        last == log[Len(log)]
    IN  handle(before, last.msg, SequentialArrival(before, last.msg), last.io_ok).reply

\* C7: the agent answers a producer's messages in the order the producer
\* sent them, and with one producer every reply is what the producer's own
\* calls, handled in the order it made them, give: a read_range or file_len
\* after a deferred write or an atomic_write sees the write.
C7_ProducerSeesOwnWrites ==
    /\ \A i, j \in 1..Len(replied) :
         (i < j /\ arrived[replied[i].idx].from = arrived[replied[j].idx].from)
             => arrived[replied[i].idx].seq < arrived[replied[j].idx].seq
    /\ \A p \in Producers :
         (\A k \in 1..Len(arrived) : arrived[k].from = p) =>
             \A i \in 1..Len(replied) :
                 replied[i].reply =
                     SequentialReply(SubSeq(SentBy(p), 1, arrived[replied[i].idx].seq))

\* One producer's deferred write, not waited for, and then its read of the
\* path, which returned the bytes written.
C7_Witness ==
    /\ Len(arrived) >= 2
    /\ \A k \in 1..Len(arrived) : arrived[k].from = 1
    /\ arrived[1].op = "deferred_send" /\ arrived[1].io_ok
    /\ arrived[2].msg.kind = "ReadRange"
    /\ \E i \in 1..Len(replied) :
         replied[i].idx = 2 /\ replied[i].reply = Ok(arrived[1].msg.buffer)

\* C8: whatever the interleaving of the producers and the agent, every reply
\* is the reply the message gets when the messages are handled one at a
\* time, each to its end, in the order the channel accepted them.
C8_RepliesAreSequential ==
    \A i \in 1..Len(replied) :
        replied[i].reply = SequentialReply(SubSeq(arrived, 1, replied[i].idx))

\* Two producers, and a read whose reply came after the reply to a message
\* that arrived later and changed the path.
C8_Witness ==
    \E i, j \in 1..Len(replied) :
        /\ i < j
        /\ replied[i].idx > replied[j].idx
        /\ arrived[replied[i].idx].from # arrived[replied[j].idx].from
        /\ arrived[replied[i].idx].msg.kind \in {"WriteStaticBuffer", "RemoveFile"}
        /\ replied[j].reply.ok /\ replied[j].reply.val # <<>>

\* The envelopes the agent has taken from the channel so far.
Handled == SubSeq(arrived, 1, Len(arrived) - Len(mailbox))

\* C11: when a producer drops the response handle of a sent write before the
\* agent replies, the agent still handles the message to its end and goes on:
\* it is alive, its state is what handling every message taken so far gives,
\* bytes appended and fragments recorded, and every reply is the sequential
\* one.
C11_DroppedWriteIsProcessed ==
    dropped # {} =>
        /\ agent.alive
        /\ agent = ReplayState(Created, Handled)
        /\ \A i \in 1..Len(replied) :
             replied[i].reply = SequentialReply(SubSeq(arrived, 1, replied[i].idx))

\* A write whose handle was dropped while it was pending, handled by the
\* agent with its fragment in the index, and a read that arrived after it and
\* returned bytes.
C11_Witness ==
    \E idx \in dropped :
        /\ idx <= Len(Handled)
        /\ arrived[idx].io_ok
        /\ exists(agent.fragments, arrived[idx].msg.file_path)
        /\ agent.current_pos >= Len(arrived[idx].msg.buffer)
        /\ \E j \in 1..Len(replied) :
             /\ replied[j].idx > idx
             /\ arrived[replied[j].idx].msg.kind = "ReadRange"
             /\ replied[j].reply.ok
             /\ replied[j].reply.val # <<>>

\* C12: once every sender handle of the mailbox has been dropped, the agent
\* handles every message already in the channel, oldest first, and then its
\* loop ends; when it has ended no message is left and every message the
\* channel accepted was answered in arrival order.
C12_ClosedMailboxDrains ==
    /\ [](actor_loop = "terminated" =>
             /\ mailbox = <<>>
             /\ Len(replied) = Len(arrived)
             /\ \A i \in 1..Len(replied) : replied[i].idx = i
             /\ agent = ReplayState(Created, arrived))
    /\ (\A p \in Producers : producers[p].pc = "gone")
           ~> (actor_loop = "terminated" /\ mailbox = <<>>)

\* The loop has ended after it handled three messages that were in the
\* channel when the last sender handle was dropped.
C12_Witness ==
    /\ actor_loop = "terminated"
    /\ Len(replied) >= 3
    /\ \A p \in Producers : producers[p].pending >= 3

\* C9: the channel never holds more than MAILBOX_CAPACITY messages, and a
\* producer is suspended in a send only when it finds that many pending.
C9_MailboxBounded ==
    /\ [](Len(mailbox) <= MAILBOX_CAPACITY)
    /\ [][\A p \in Producers :
             (producers[p].pc # "suspended" /\ producers'[p].pc = "suspended")
                 => Len(mailbox) = MAILBOX_CAPACITY]_vars

\* A full channel and the producer suspended in its next send.
C9_Witness ==
    /\ Len(mailbox) = MAILBOX_CAPACITY
    /\ producers[1].pc = "suspended"

\* C10: on a write stream a failure of the agent's write k is not returned by
\* the producer's write k; the producer's next write on the stream returns it.
C10_ErrorReturnedByNextWrite ==
    \A i \in 1..Len(replied) :
        LET env == arrived[replied[i].idx]
        IN  (env.call \in {"write", "MessageWriter::write"} /\ ~replied[i].reply.ok)
                => /\ Returned(env, replied[i].reply).ok
                   /\ \A j \in 1..Len(replied) :
                        LET next == arrived[replied[j].idx]
                        IN  (/\ next.from = env.from
                             /\ next.call = env.call
                             /\ next.seq = env.seq + 1)
                                => ~Returned(next, replied[j].reply).ok

====
